---- MODULE Spec2Model ----
(***************************************************************************)
(* Answer reconciliation (Verifier.verify), self-consistency voting        *)
(* (vote_answers), few-shot retrieval (FewShotRetriever), output            *)
(* formatting (normalize_answer), the provider call with retries, the two   *)
(* solvers (PALSolver.solve, CoTSolver.solve) and the batch loop of the     *)
(* math solver; the semantic index (SemanticIndex), the pattern extractor   *)
(* (PatternExtractor) and the batch loop of the multi-hop QA system.        *)
(*                                                                         *)
(* Python strings are sequences of one-character strings; Python values    *)
(* are records [type, n, s]; floats that carry a confidence are exact      *)
(* fractions [num, den] in lowest terms, so that structural equality is    *)
(* numeric equality (count / len is a correctly rounded division, and the  *)
(* literals 0.6, 0.65, 0.7 are at least 1/(100*len) away from every other  *)
(* fraction of a small denominator, so the float comparisons agree with    *)
(* the exact ones).                                                        *)
(***************************************************************************)
EXTENDS Integers, Sequences, FiniteSets

VARIABLES
    pal_result,     \* dict handed to Verifier.verify (a function on its keys)
    cot_result,     \* dict handed to Verifier.verify
    question,       \* question text
    prefer_pal,     \* Verifier.prefer_pal of each Verifier instance
    returned,       \* what verify returned on each instance (NotCalled before)
    answers,        \* the list handed to vote_answers
    vote_out,       \* what vote_answers returned (NotCalled before)
    pc,             \* "input": inputs drawn, "called": an operation has run
    indices,            \* SemanticIndex.indices of the live instance
    indexed_examples,   \* SemanticIndex.indexed_examples of the live instance
    dir_files,          \* the <type>_<level>.index files of the directory
    dir_pickle,         \* indexed_examples.pkl of the directory
    last_build,         \* the categories the latest build_index left empty
    found,              \* what the latest search was asked and returned
    cache,              \* the file at FewShotRetriever.cache_path
    retriever,          \* the live FewShotRetriever
    retrieved,          \* what the latest retrieve was asked and returned
    extracted,          \* the latest extract_pattern call and its outcome
    norm,               \* the latest normalize_answer call and its result
    call,               \* one provider call with retries (_generate_reasoning / _generate_code)
    pal_solve,          \* one PALSolver.solve call
    cot_solve,          \* one CoTSolver.solve call
    run                 \* one batch run over the test questions

index_vars == <<indices, indexed_examples, dir_files, dir_pickle, last_build, found>>

retriever_vars == <<cache, retriever, retrieved>>

solver_vars == <<call, pal_solve, cot_solve, run>>

vars == <<pal_result, cot_result, question, prefer_pal, returned, answers, vote_out, pc,
          index_vars, retriever_vars, extracted, norm, solver_vars>>

----------------------------------------------------------------------------
(* Python values *)

PyNone == [type |-> "NoneType", n |-> 0, s |-> <<>>]
PyStr(s) == [type |-> "str", n |-> 0, s |-> s]
PyInt(n) == [type |-> "int", n |-> n, s |-> <<>>]
\* a float with one decimal digit, n in tenths (8.0 is PyFloat(80))
PyFloat(n) == [type |-> "float", n |-> n, s |-> <<>>]

NotCalled == [type |-> "not_called", n |-> 0, s |-> <<>>]

RECURSIVE GCD(_, _)
GCD(a, b) == IF b = 0 THEN a ELSE GCD(b, a % b)

\* the float n/d
Frac(n, d) == [num |-> n \div GCD(n, d), den |-> d \div GCD(n, d)]
FracLess(a, b) == a.num * b.den < b.num * a.den
FracGE(a, b) == ~FracLess(a, b)
\* min in place of max
FracMin(a, b) == IF FracLess(b, a) THEN b ELSE a
\* max(a, b) of Python: b only when it is strictly greater
FracMax(a, b) == IF FracLess(a, b) THEN b ELSE a

----------------------------------------------------------------------------
(* str methods *)

Whitespace == {" ", "\t"}
UpperCase == <<"A", "B", "C", "D", "E", "F", "G", "H", "I", "J", "K", "L", "M",
               "N", "O", "P", "Q", "R", "S", "T", "U", "V", "W", "X", "Y", "Z">>
LowerCase == <<"a", "b", "c", "d", "e", "f", "g", "h", "i", "j", "k", "l", "m",
               "n", "o", "p", "q", "r", "s", "t", "u", "v", "w", "x", "y", "z">>

\* the lower-case letter of every upper-case letter
ToLower == [c \in {UpperCase[i] : i \in DOMAIN UpperCase} |->
                LowerCase[CHOOSE i \in DOMAIN UpperCase : UpperCase[i] = c]]

LowerChar(c) == IF c \in DOMAIN ToLower THEN ToLower[c] ELSE c

\* s.lower()
RECURSIVE lower(_)
lower(s) == IF s = <<>> THEN <<>> ELSE <<LowerChar(Head(s))>> \o lower(Tail(s))

\* s.strip(): leading and trailing whitespace removed
strip(s) ==
    LET keep == {i \in DOMAIN s : s[i] \notin Whitespace}
    IN  IF keep = {} THEN <<>>
        ELSE LET lo == CHOOSE i \in keep : \A j \in keep : i <= j
                 hi == CHOOSE i \in keep : \A j \in keep : j <= i
             IN  SubSeq(s, lo, hi)

\* s with every character of the set drop removed (chained str.replace(c, ''),
\* re.sub(r'\s+', '', s))
remove(s, drop) == SelectSeq(s, LAMBDA c : c \notin drop)

\* needle in hay
contains(hay, needle) ==
    \E i \in 0..(Len(hay) - Len(needle)) :
        \A j \in 1..Len(needle) : hay[i + j] = needle[j]

----------------------------------------------------------------------------
(* self_consistency.py *)

\* a.strip().lower()
strip_lower(a) == lower(strip(a))

\* Counter(xs)[x]
CounterCount(xs, x) == Cardinality({i \in DOMAIN xs : xs[i] = x})

\* Counter(xs).most_common(1)[0] for a non-empty xs: the keys of a Counter are
\* in first-insertion order and max() keeps the first key of maximal count.
most_common(xs) ==
    LET i == CHOOSE k \in DOMAIN xs :
                 /\ \A j \in DOMAIN xs : CounterCount(xs, xs[j]) <= CounterCount(xs, xs[k])
                 /\ \A j \in 1..(k - 1) : CounterCount(xs, xs[j]) < CounterCount(xs, xs[k])
    IN  <<xs[i], CounterCount(xs, xs[i])>>

vote_answers(as) ==
    IF as = <<>> THEN [value |-> PyNone, confidence |-> Frac(0, 1)]
    ELSE
    LET kept == SelectSeq(as, LAMBDA a : a # <<>>)
        normalized == [i \in DOMAIN kept |-> strip_lower(kept[i])]
    IN  IF normalized = <<>> THEN [value |-> PyNone, confidence |-> Frac(0, 1)]
        ELSE
        LET mc == most_common(normalized)
            majority_answer == mc[1]
            confidence == Frac(mc[2], Len(normalized))
            hits == {i \in DOMAIN as : strip_lower(as[i]) = majority_answer}
        IN  IF hits # {}
            THEN [value |-> PyStr(strip(as[CHOOSE i \in hits : \A j \in hits : i <= j])),
                  confidence |-> confidence]
            ELSE [value |-> PyStr(majority_answer), confidence |-> confidence]

----------------------------------------------------------------------------
(* verifier.py *)

DigitChars == <<"0", "1", "2", "3", "4", "5", "6", "7", "8", "9">>

\* str(n) for an int n >= 0
RECURSIVE int_str(_)
int_str(n) ==
    IF n < 10 THEN <<DigitChars[n + 1]>>
    ELSE Append(int_str(n \div 10), DigitChars[(n % 10) + 1])

\* str(x)
py_str(x) ==
    CASE x.type = "NoneType" -> <<"N", "o", "n", "e">>
      [] x.type = "str" -> x.s
      [] x.type = "int" -> int_str(x.n)
      [] x.type = "float" -> int_str(x.n \div 10) \o <<".">> \o int_str(x.n % 10)

\* d.get(k, default); a dict is a record of its possible keys plus the set
\* of the keys it holds
dict_get(d, k, default) == IF k \in d.keys THEN d[k] ELSE default

complexity_indicators == <<
    <<"e", "v", "e", "r", "y">>,
    <<"e", "a", "c", "h">>,
    <<"d", "o", "u", "b", "l", "e", "s">>,
    <<"t", "r", "i", "p", "l", "e", "s">>,
    <<"w", "e", "e", "k", "e", "n", "d">>,
    <<"w", "e", "e", "k", "d", "a", "y">>,
    <<"e", "x", "c", "e", "p", "t">>,
    <<"b", "o", "t", "h">>,
    <<"e", "i", "t", "h", "e", "r">>,
    <<"b", "e", "t", "w", "e", "e", "n">>,
    <<"s", "a", "t", "u", "r", "d", "a", "y">>,
    <<"s", "u", "n", "d", "a", "y">>,
    <<"m", "o", "n", "d", "a", "y">>,
    <<"m", "o", "r", "n", "i", "n", "g">>,
    <<"e", "v", "e", "n", "i", "n", "g">>,
    <<"a", "f", "t", "e", "r", "n", "o", "o", "n">> >>

arithmetic_indicators == <<
    <<"c", "a", "l", "c", "u", "l", "a", "t", "e">>,
    <<"c", "o", "m", "p", "u", "t", "e">>,
    <<"h", "o", "w", " ", "m", "a", "n", "y">>,
    <<"h", "o", "w", " ", "m", "u", "c", "h">>,
    <<"t", "o", "t", "a", "l">>,
    <<"s", "u", "m">>,
    <<"d", "i", "f", "f", "e", "r", "e", "n", "c", "e">>,
    <<"p", "r", "o", "d", "u", "c", "t">>,
    <<"q", "u", "o", "t", "i", "e", "n", "t">>,
    <<"+">>,
    <<"-">>,
    <<"*">>,
    <<"/">>,
    <<"d", "i", "v", "i", "d", "e">>,
    <<"m", "u", "l", "t", "i", "p", "l", "y">>,
    <<"c", "o", "s", "t">>,
    <<"p", "r", "i", "c", "e">>,
    <<"e", "a", "r", "n">>,
    <<"s", "p", "e", "n", "d">>,
    <<"p", "a", "y">> >>

\* Verifier._is_complex_word_problem
Verifier_is_complex_word_problem(q) ==
    LET q_lower == lower(q)
        matches == Cardinality({i \in DOMAIN complexity_indicators :
                                    contains(q_lower, complexity_indicators[i])})
    IN  matches >= 2

\* Verifier._is_arithmetic_question
Verifier_is_arithmetic_question(q) ==
    LET q_lower == lower(q)
    IN  \E i \in DOMAIN arithmetic_indicators : contains(q_lower, arithmetic_indicators[i])

\* _normalize_answer without .lower()
normalize_answer_no_lower(answer) ==
    LET s  == strip(py_str(answer))
        s2 == remove(s, {",", "$", "%"})
    IN  remove(s2, Whitespace)

\* Verifier._normalize_answer
Verifier_normalize_answer(answer) ==
    LET s  == lower(strip(py_str(answer)))
        s2 == remove(s, {",", "$", "%"})
    IN  remove(s2, Whitespace)

Result(a, m, c) == [final_answer |-> a, method |-> m, confidence |-> c]

\* 'result' in cot_result, instead of: its value is not None
cot_success_has_key(cot) == "result" \in cot.keys

\* cot_success = cot_result.get("result") is not None
cot_success_of(cot) == dict_get(cot, "result", PyNone) # PyNone

\* the disagreement rules with the arithmetic rule tried first
verify_disagree_arithmetic_first(self_prefer_pal, pal_answer, cot_answer, cot_confidence, q) ==
    LET is_arithmetic == Verifier_is_arithmetic_question(q)
        is_complex_word_problem == Verifier_is_complex_word_problem(q)
    IN  IF is_arithmetic /\ self_prefer_pal
        THEN Result(py_str(pal_answer), "pal_simple_arithmetic", Frac(75, 100))
        ELSE IF is_complex_word_problem /\ FracGE(cot_confidence, Frac(65, 100))
        THEN Result(py_str(cot_answer), "cot_complex_problem", cot_confidence)
        ELSE IF FracGE(cot_confidence, Frac(7, 10))
        THEN Result(py_str(cot_answer), "cot_high_confidence", cot_confidence)
        ELSE IF FracGE(cot_confidence, Frac(6, 10))
        THEN Result(py_str(cot_answer), "cot_medium_confidence", cot_confidence)
        ELSE Result(py_str(pal_answer), "pal_default", Frac(65, 100))

\* the disagreement rules with the high-confidence rule tried before the
\* arithmetic rule
verify_disagree_confidence_first(self_prefer_pal, pal_answer, cot_answer, cot_confidence, q) ==
    LET is_arithmetic == Verifier_is_arithmetic_question(q)
        is_complex_word_problem == Verifier_is_complex_word_problem(q)
    IN  IF is_complex_word_problem /\ FracGE(cot_confidence, Frac(65, 100))
        THEN Result(py_str(cot_answer), "cot_complex_problem", cot_confidence)
        ELSE IF FracGE(cot_confidence, Frac(7, 10))
        THEN Result(py_str(cot_answer), "cot_high_confidence", cot_confidence)
        ELSE IF is_arithmetic /\ ~is_complex_word_problem /\ self_prefer_pal
        THEN Result(py_str(pal_answer), "pal_simple_arithmetic", Frac(75, 100))
        ELSE IF FracGE(cot_confidence, Frac(6, 10))
        THEN Result(py_str(cot_answer), "cot_medium_confidence", cot_confidence)
        ELSE Result(py_str(pal_answer), "pal_default", Frac(65, 100))

\* the disagreement rules with > in place of >= on the two CoT thresholds
verify_disagree_strict(self_prefer_pal, pal_answer, cot_answer, cot_confidence, q) ==
    LET is_arithmetic == Verifier_is_arithmetic_question(q)
        is_complex_word_problem == Verifier_is_complex_word_problem(q)
    IN  IF is_complex_word_problem /\ FracGE(cot_confidence, Frac(65, 100))
        THEN Result(py_str(cot_answer), "cot_complex_problem", cot_confidence)
        ELSE IF is_arithmetic /\ ~is_complex_word_problem /\ self_prefer_pal
        THEN Result(py_str(pal_answer), "pal_simple_arithmetic", Frac(75, 100))
        ELSE IF FracLess(Frac(7, 10), cot_confidence)
        THEN Result(py_str(cot_answer), "cot_high_confidence", cot_confidence)
        ELSE IF FracLess(Frac(6, 10), cot_confidence)
        THEN Result(py_str(cot_answer), "cot_medium_confidence", cot_confidence)
        ELSE Result(py_str(pal_answer), "pal_default", Frac(65, 100))

\* Verifier.verify, both succeeded and the normalized answers differ
verify_disagree(self_prefer_pal, pal_answer, cot_answer, cot_confidence, q) ==
    LET is_arithmetic == Verifier_is_arithmetic_question(q)
        is_complex_word_problem == Verifier_is_complex_word_problem(q)
    IN  IF is_complex_word_problem /\ FracGE(cot_confidence, Frac(65, 100))
        THEN Result(py_str(cot_answer), "cot_complex_problem", cot_confidence)
        ELSE IF is_arithmetic /\ ~is_complex_word_problem /\ self_prefer_pal
        THEN Result(py_str(pal_answer), "pal_simple_arithmetic", Frac(75, 100))
        ELSE IF FracGE(cot_confidence, Frac(7, 10))
        THEN Result(py_str(cot_answer), "cot_high_confidence", cot_confidence)
        ELSE IF FracGE(cot_confidence, Frac(6, 10))
        THEN Result(py_str(cot_answer), "cot_medium_confidence", cot_confidence)
        ELSE Result(py_str(pal_answer), "pal_default", Frac(65, 100))

\* a verify that never falls back: a CoT candidate that failed is returned
\* as 'cot_only'
verify_without_fallback(self_prefer_pal, pal, cot, q) ==
    LET pal_success == dict_get(pal, "success", FALSE)
        cot_success == cot_success_of(cot)
        pal_answer == dict_get(pal, "result", PyNone)
        cot_answer == dict_get(cot, "result", PyNone)
        cot_confidence == dict_get(cot, "confidence", Frac(0, 1))
    IN  IF pal_success /\ cot_success THEN
            IF Verifier_normalize_answer(pal_answer) = Verifier_normalize_answer(cot_answer)
            THEN Result(py_str(pal_answer), "both_agree", Frac(1, 1))
            ELSE verify_disagree(self_prefer_pal, pal_answer, cot_answer, cot_confidence, q)
        ELSE IF pal_success
        THEN Result(py_str(pal_answer), "pal_only", Frac(7, 10))
        ELSE Result(py_str(cot_answer), "cot_only", FracMax(Frac(6, 10), cot_confidence))

\* Verifier.verify on an instance whose prefer_pal is self_prefer_pal
Verifier_verify(self_prefer_pal, pal, cot, q) ==
    LET pal_success == dict_get(pal, "success", FALSE)
        cot_success == cot_success_of(cot)
        pal_answer == dict_get(pal, "result", PyNone)
        cot_answer == dict_get(cot, "result", PyNone)
        cot_confidence == dict_get(cot, "confidence", Frac(0, 1))
    IN  IF pal_success /\ cot_success THEN
            IF Verifier_normalize_answer(pal_answer) = Verifier_normalize_answer(cot_answer)
            THEN Result(py_str(pal_answer), "both_agree", Frac(1, 1))
            ELSE verify_disagree(self_prefer_pal, pal_answer, cot_answer, cot_confidence, q)
        ELSE IF pal_success
        THEN Result(py_str(pal_answer), "pal_only", Frac(7, 10))
        ELSE IF cot_success
        THEN Result(py_str(cot_answer), "cot_only", FracMax(Frac(6, 10), cot_confidence))
        ELSE Result(<<"0">>, "fallback", Frac(0, 1))

----------------------------------------------------------------------------
(* bounds and input sets *)

MaxAnswers == 4

\* raw answer strings: empty, blank, padded and differently cased entries
AnswerStrings == { <<>>, <<" ">>, <<"8">>, <<" ", "8">>, <<"9">>, <<"a">>, <<"A", " ">> }

MaxWords == 2

\* phrases a question is made of: an arithmetic indicator that spans two
\* words, a phrase holding two complexity indicators, and an upper-case word
\* that holds the indicator 'each' as a substring
Phrases == {
    <<"H", "o", "w", " ", "m", "a", "n", "y">>,
    <<"e", "a", "c", "h", " ", "w", "e", "e", "k", "e", "n", "d">>,
    <<"T", "E", "A", "C", "H", "E", "R">> }

\* candidate values: PAL binds any Python object, CoT extracts strings
PalValues == { PyInt(1000), PyFloat(80) }
CotValues == { PyNone, PyStr(<<"$", "1", ",", "0", "0", "0", " ">>), PyStr(<<"N", "O", "N", "E">>), PyStr(<<"9">>) }
Confidences == { Frac(59, 100), Frac(60, 100), Frac(65, 100), Frac(66, 100),
                 Frac(70, 100), Frac(1, 1) }

PalDict(keys, success, result) == [keys |-> keys, success |-> success, result |-> result]
CotDict(keys, result, confidence) == [keys |-> keys, result |-> result, confidence |-> confidence]

\* the pal_result dictionaries over the keys 'success' and 'result' (a missing
\* 'result' reads as None)
PalResults ==
    { PalDict({}, FALSE, PyNone) }
    \cup { PalDict({"success"}, b, PyNone) : b \in BOOLEAN }
    \cup { PalDict({"result"}, FALSE, v) : v \in PalValues }
    \cup { PalDict({"success", "result"}, b, v) : b \in BOOLEAN, v \in PalValues }

\* every cot_result dictionary over the keys 'result' and 'confidence'
CotResults ==
    { CotDict({}, PyNone, Frac(0, 1)) }
    \cup { CotDict({"result"}, v, Frac(0, 1)) : v \in CotValues }
    \cup { CotDict({"confidence"}, PyNone, c) : c \in Confidences }
    \cup { CotDict({"result", "confidence"}, v, c) : v \in CotValues, c \in Confidences }

Instances == {1, 2}

RECURSIVE SeqsUpTo(_, _)
SeqsUpTo(S, n) ==
    IF n = 0 THEN {<<>>}
    ELSE LET shorter == SeqsUpTo(S, n - 1)
         IN  shorter \cup {Append(q, x) : q \in {r \in shorter : Len(r) = n - 1}, x \in S}

\* ' '.join(ws)
RECURSIVE join(_)
join(ws) ==
    IF ws = <<>> THEN <<>>
    ELSE IF Len(ws) = 1 THEN ws[1]
    ELSE ws[1] \o <<" ">> \o join(Tail(ws))

Questions == { join(ws) : ws \in SeqsUpTo(Phrases, MaxWords) }

----------------------------------------------------------------------------
(* voting: vote_answers applied to every list of at most MaxAnswers entries *)

NoDict == [none |-> TRUE]

\* the variables of the components a specification does not exercise
IndexUnused ==
    /\ indices = <<>>
    /\ indexed_examples = <<>>
    /\ dir_files = <<>>
    /\ dir_pickle = <<>>
    /\ last_build = <<>>
    /\ found = <<>>

RetrieverUnused ==
    /\ cache = <<>>
    /\ retriever = <<>>
    /\ retrieved = <<>>

PatternUnused == extracted = <<>>

NormalizerUnused == norm = <<>>

CallUnused == call = <<>>
PalSolveUnused == pal_solve = <<>>
CotSolveUnused == cot_solve = <<>>
RunUnused == run = <<>>
SolversUnused == CallUnused /\ PalSolveUnused /\ CotSolveUnused /\ RunUnused

InitVote ==
    /\ answers \in SeqsUpTo(AnswerStrings, MaxAnswers)
    /\ vote_out = NotCalled
    /\ pc = "input"
    /\ pal_result = NoDict
    /\ cot_result = NoDict
    /\ question = <<>>
    /\ prefer_pal = <<>>
    /\ returned = <<>>
    /\ IndexUnused
    /\ RetrieverUnused
    /\ PatternUnused
    /\ NormalizerUnused
    /\ SolversUnused

CallVote ==
    /\ pc = "input"
    /\ vote_out' = vote_answers(answers)
    /\ pc' = "called"
    /\ UNCHANGED <<answers, pal_result, cot_result, question, prefer_pal, returned>>
    /\ UNCHANGED <<index_vars, retriever_vars, extracted, norm, solver_vars>>

NextVote == CallVote

SpecVote == InitVote /\ [][NextVote]_vars

----------------------------------------------------------------------------
(* reconciliation: Verifier instances constructed with either value of      *)
(* prefer_pal_for_arithmetic, called on one triple (pal, cot, question)     *)

Init ==
    /\ pal_result \in PalResults
    /\ cot_result \in CotResults
    /\ question \in Questions
    /\ prefer_pal \in [Instances -> BOOLEAN]
    /\ returned = [i \in Instances |-> NotCalled]
    /\ pc = "input"
    /\ answers = <<>>
    /\ vote_out = NotCalled
    /\ IndexUnused
    /\ RetrieverUnused
    /\ PatternUnused
    /\ NormalizerUnused
    /\ SolversUnused

\* a verify that flips self.prefer_pal once it has answered
Verify_stateful(i) ==
    /\ returned' = [returned EXCEPT ![i] =
                        Verifier_verify(prefer_pal[i], pal_result, cot_result, question)]
    /\ prefer_pal' = [prefer_pal EXCEPT ![i] = ~prefer_pal[i]]
    /\ pc' = "called"
    /\ UNCHANGED <<pal_result, cot_result, question, answers, vote_out>>
    /\ UNCHANGED <<index_vars, retriever_vars, extracted, norm, solver_vars>>

\* verifier.verify(pal_result, cot_result, question) on instance i
Verify(i) ==
    /\ returned' = [returned EXCEPT ![i] =
                        Verifier_verify(prefer_pal[i], pal_result, cot_result, question)]
    /\ pc' = "called"
    /\ UNCHANGED <<pal_result, cot_result, question, prefer_pal, answers, vote_out>>
    /\ UNCHANGED <<index_vars, retriever_vars, extracted, norm, solver_vars>>

Next == \E i \in Instances : Verify(i)

Spec == Init /\ [][Next]_vars

----------------------------------------------------------------------------
(* Verifier.verify: the claims *)

Called(i) == returned[i] # NotCalled

\* pal_result has success=True
PalSucceeded == "success" \in pal_result.keys /\ pal_result.success
\* cot_result has a result that is not None
CotSucceeded == "result" \in cot_result.keys /\ cot_result.result # PyNone
PalValue == IF "result" \in pal_result.keys THEN pal_result.result ELSE PyNone
CotValue == IF "result" \in cot_result.keys THEN cot_result.result ELSE PyNone
CotConfidence == IF "confidence" \in cot_result.keys THEN cot_result.confidence ELSE Frac(0, 1)

\* stringify, strip, lowercase, remove ',', '$', '%' and all whitespace
Normalized(v) == remove(lower(strip(py_str(v))), {",", "$", "%"} \cup Whitespace)

Agree == Normalized(PalValue) = Normalized(CotValue)
IsArithmetic == Verifier_is_arithmetic_question(question)
IsComplex == Verifier_is_complex_word_problem(question)

\* C1: when PAL succeeded, CoT has a value and the normalized values are
\* equal, every call returns (str(pal.result), 'both_agree', 1.0), whatever
\* the question and the CoT confidence.
C1_BothAgree ==
    \A i \in Instances :
        (Called(i) /\ PalSucceeded /\ CotSucceeded /\ Agree)
            => returned[i] = Result(py_str(PalValue), "both_agree", Frac(1, 1))

\* C1 witness: a call answered both_agree for values that are equal only
\* after normalization, on an arithmetic question with a low CoT confidence.
C1_Witness ==
    /\ Called(1) /\ PalSucceeded /\ CotSucceeded /\ Agree
    /\ py_str(PalValue) # py_str(CotValue)
    /\ lower(py_str(CotValue)) # py_str(CotValue)
    /\ IsArithmetic
    /\ CotConfidence = Frac(59, 100)
    /\ returned[1].method = "both_agree"

\* C2: when exactly one candidate succeeded the result carries its value:
\* (str(pal.result), 'pal_only', 0.70) if only PAL succeeded,
\* (str(cot.result), 'cot_only', max(0.60, cot.confidence)) if only CoT did.
C2_OnlyOne ==
    \A i \in Instances :
        /\ (Called(i) /\ PalSucceeded /\ ~CotSucceeded)
              => returned[i] = Result(py_str(PalValue), "pal_only", Frac(70, 100))
        /\ (Called(i) /\ ~PalSucceeded /\ CotSucceeded)
              => returned[i] = Result(py_str(CotValue), "cot_only",
                                      IF FracLess(CotConfidence, Frac(60, 100))
                                      THEN Frac(60, 100) ELSE CotConfidence)

\* C2 witness: only CoT succeeded, with a confidence below 0.60 that the
\* result raises to 0.60, on a question that is arithmetic and complex.
C2_Witness ==
    /\ Called(1) /\ ~PalSucceeded /\ CotSucceeded
    /\ "result" \in pal_result.keys /\ pal_result.result # PyNone
    /\ CotConfidence = Frac(59, 100)
    /\ IsArithmetic /\ IsComplex
    /\ returned[1] = Result(py_str(CotValue), "cot_only", Frac(60, 100))

\* C3: when neither candidate succeeded, dictionaries that lack keys
\* included, every call returns ('0', 'fallback', 0.0).
C3_Fallback ==
    \A i \in Instances :
        (Called(i) /\ ~PalSucceeded /\ ~CotSucceeded)
            => returned[i] = Result(<<"0">>, "fallback", Frac(0, 1))

\* C3 witness: a call on a pal_result without 'success' and a cot_result
\* whose 'result' key is present and None answered with the fallback.
C3_Witness ==
    /\ Called(1)
    /\ "success" \notin pal_result.keys
    /\ "result" \in cot_result.keys /\ cot_result.result = PyNone
    /\ "confidence" \in cot_result.keys /\ cot_result.confidence = Frac(70, 100)
    /\ returned[1].method = "fallback"

\* C4: when both succeeded and disagree, on a question that is arithmetic
\* and complex with cot.confidence >= 0.65, every call returns
\* (cot value, 'cot_complex_problem', cot.confidence): the complex rule is
\* tried before the arithmetic rule.
C4_ComplexBeforeArithmetic ==
    \A i \in Instances :
        (/\ Called(i) /\ PalSucceeded /\ CotSucceeded /\ ~Agree
         /\ IsArithmetic /\ IsComplex
         /\ FracGE(CotConfidence, Frac(65, 100)))
            => returned[i] = Result(py_str(CotValue), "cot_complex_problem", CotConfidence)

\* C4 witness: the case of the spec, cot.confidence = 0.66 on a question
\* matching both predicates, on an instance that prefers PAL.
C4_Witness ==
    /\ Called(1) /\ prefer_pal[1]
    /\ PalSucceeded /\ CotSucceeded /\ ~Agree
    /\ IsArithmetic /\ IsComplex
    /\ CotConfidence = Frac(66, 100)
    /\ returned[1].method = "cot_complex_problem"

\* C5 as stated: when both succeeded and disagree, on an arithmetic question
\* that is not complex, every call on every instance returns
\* (pal value, 'pal_simple_arithmetic', 0.75).
C5_Original ==
    \A i \in Instances :
        (/\ Called(i) /\ PalSucceeded /\ CotSucceeded /\ ~Agree
         /\ IsArithmetic /\ ~IsComplex)
            => returned[i] = Result(py_str(PalValue), "pal_simple_arithmetic", Frac(75, 100))

\* C5 amended: the same, for every instance constructed with
\* prefer_pal_for_arithmetic true.
C5_PreferPal ==
    \A i \in Instances :
        (/\ Called(i) /\ prefer_pal[i]
         /\ PalSucceeded /\ CotSucceeded /\ ~Agree
         /\ IsArithmetic /\ ~IsComplex)
            => returned[i] = Result(py_str(PalValue), "pal_simple_arithmetic", Frac(75, 100))

\* C5 witness: a preferring instance answered pal_simple_arithmetic against
\* a CoT candidate of confidence 0.70, on a question holding one complexity
\* indicator.
C5_Witness ==
    /\ Called(1) /\ prefer_pal[1]
    /\ PalSucceeded /\ CotSucceeded /\ ~Agree
    /\ IsArithmetic /\ ~IsComplex
    /\ contains(lower(question), <<"e", "a", "c", "h">>)
    /\ CotConfidence = Frac(70, 100)
    /\ returned[1].method = "pal_simple_arithmetic"

\* the complex-word-problem rule, the simple-arithmetic rule of instance i
ComplexRuleFires == IsComplex /\ FracGE(CotConfidence, Frac(65, 100))
ArithmeticRuleFires(i) == IsArithmetic /\ ~IsComplex /\ prefer_pal[i]

\* C6: when both succeeded, disagree and neither of the two rules fires, the
\* result is (cot value, 'cot_high_confidence', c) if c >= 0.70,
\* (cot value, 'cot_medium_confidence', c) if 0.60 <= c < 0.70 and
\* (pal value, 'pal_default', 0.65) if c < 0.60.
C6_Thresholds ==
    \A i \in Instances :
        (/\ Called(i) /\ PalSucceeded /\ CotSucceeded /\ ~Agree
         /\ ~ComplexRuleFires /\ ~ArithmeticRuleFires(i))
            => returned[i] =
                 IF FracGE(CotConfidence, Frac(70, 100))
                 THEN Result(py_str(CotValue), "cot_high_confidence", CotConfidence)
                 ELSE IF FracGE(CotConfidence, Frac(60, 100))
                 THEN Result(py_str(CotValue), "cot_medium_confidence", CotConfidence)
                 ELSE Result(py_str(PalValue), "pal_default", Frac(65, 100))

\* C6 witness: the boundary 0.60, answered cot_medium_confidence on a
\* complex question.
C6_Witness ==
    /\ Called(1)
    /\ PalSucceeded /\ CotSucceeded /\ ~Agree
    /\ IsComplex
    /\ CotConfidence = Frac(60, 100)
    /\ returned[1].method = "cot_medium_confidence"

----------------------------------------------------------------------------
(* vote_answers: the claims *)

\* the entries that are non-empty after trimming, and their trim+lowercase form
Usable == {i \in DOMAIN answers : strip(answers[i]) # <<>>}
NormalForm(i) == lower(strip(answers[i]))
Frequency(v) == Cardinality({i \in Usable : NormalForm(i) = v})
TopFrequency == CHOOSE c \in 1..Len(answers) :
                    /\ \E i \in Usable : Frequency(NormalForm(i)) = c
                    /\ \A i \in Usable : Frequency(NormalForm(i)) <= c
\* the first entry whose normalized form has the highest frequency
Winner == CHOOSE i \in Usable :
              /\ Frequency(NormalForm(i)) = TopFrequency
              /\ \A j \in Usable : Frequency(NormalForm(j)) = TopFrequency => i <= j
Tied == {NormalForm(i) : i \in {j \in Usable : Frequency(NormalForm(j)) = TopFrequency}}

\* C8: for a list with at least one usable entry the result is (v, c/m): m
\* the number of usable entries, c the highest frequency among their
\* normalized forms, v the trimmed first entry whose form has that frequency.
C8_MajorityAndFraction ==
    (pc = "called" /\ Usable # {})
        => vote_out = [value |-> PyStr(strip(answers[Winner])),
                       confidence |-> Frac(TopFrequency, Cardinality(Usable))]

\* C9: for a list with no usable entry (empty, or only empty and blank
\* entries) the result is (None, 0.0).
C9_NoUsableEntry ==
    (pc = "called" /\ Usable = {})
        => vote_out = [value |-> PyNone, confidence |-> Frac(0, 1)]

\* C10: when two or more normalized values share the highest frequency, the
\* returned value is the one whose first occurrence is earliest in the input.
C10_TieBreak ==
    (pc = "called" /\ Usable # {} /\ Cardinality(Tied) >= 2)
        => /\ vote_out.value.type = "str"
           /\ lower(vote_out.value.s) = NormalForm(Winner)

----------------------------------------------------------------------------
(* semantic_index.py *)

\* the fixed question types and levels, in the order the loops visit them
QTypes == <<"bridge", "comparison">>
Levels == <<"easy", "medium", "hard">>
Categories == {<<QTypes[i], Levels[j]>> : i \in DOMAIN QTypes, j \in DOMAIN Levels}

\* a faiss.IndexFlatIP: the rows added to it (L2-normalized on the way in,
\* kept here as the vectors whose directions they are); no index: None or a
\* missing key / file
NoIndex == [present |-> FALSE, vecs |-> <<>>]
FlatIndex(vs) == [present |-> TRUE, vecs |-> vs]

IndexedExample(id, qt, lvl, vec) == [id |-> id, question_type |-> qt, level |-> lvl, embedding |-> vec]
CategoryOf(p) == <<p.question_type, p.level>>

Dot(a, b) == a[1] * b[1] + a[2] * b[2]

\* cos(q, a) < cos(q, b), the cosine of a zero vector being 0: inner products
\* of L2-normalized vectors, compared exactly
CosLess(q, a, b) ==
    LET x == Dot(q, a)
        y == Dot(q, b)
        A == IF Dot(a, a) = 0 THEN 1 ELSE Dot(a, a)
        B == IF Dot(b, b) = 0 THEN 1 ELSE Dot(b, b)
    IN  IF x >= 0 /\ y >= 0 THEN x * x * B < y * y * A
        ELSE IF x < 0 /\ y < 0 THEN x * x * B > y * y * A
        ELSE x < y

Min(a, b) == IF a < b THEN a ELSE b

\* index.search(query, k)[1][0] for k >= 1: the labels (1-based here, 0 for
\* faiss's -1) of the k rows of highest inner product, best first, padded
\* with -1 beyond the rows of the index; faiss leaves the order of rows of
\* equal inner product unspecified, so every such order is an outcome
faiss_search(vecs, q, k) ==
    LET m == Len(vecs)
        kk == Min(k, m)
        ranked == {s \in [1..kk -> 1..m] :
                      /\ \A i, j \in 1..kk : i < j =>
                            (s[i] # s[j] /\ ~CosLess(q, vecs[s[i]], vecs[s[j]]))
                      /\ \A e \in 1..m : (\A i \in 1..kk : s[i] # e) =>
                            \A i \in 1..kk : ~CosLess(q, vecs[s[i]], vecs[e])}
    IN  {[i \in 1..k |-> IF i <= kk THEN s[i] ELSE 0] : s \in ranked}

SearchReturned(r) == [raised |-> FALSE, result |-> r]
SearchRaised == [raised |-> TRUE, result |-> <<>>]

\* [examples[idx] for idx in indices[0] if 0 <= idx < len(examples)]
pick_examples(examples, labels) ==
    LET ok == SelectSeq(labels, LAMBDA l : 1 <= l /\ l <= Len(examples))
    IN  [i \in DOMAIN ok |-> examples[ok[i]]]

\* a search that tests the question type only and reads
\* indexed_examples[question_type][level] of an unknown level (KeyError)
search_level_unchecked(idx, exs, q, qt, lvl, k) ==
    IF \A i \in DOMAIN QTypes : QTypes[i] # qt
    THEN {SearchReturned(<<>>)}
    ELSE IF <<qt, lvl>> \notin Categories
    THEN {SearchRaised}
    ELSE
    LET index == idx[<<qt, lvl>>]
        examples == exs[<<qt, lvl>>]
    IN  IF ~index.present \/ Len(examples) = 0 THEN {SearchReturned(<<>>)}
        ELSE IF Min(k, Len(examples)) < 1 THEN {SearchRaised}
        ELSE {SearchReturned(pick_examples(examples, labels)) :
                 labels \in faiss_search(index.vecs, q, Min(k, Len(examples)))}

\* a search that neither clamps top_k nor filters the labels: a label -1
\* reads examples[-1]
search_unclamped(idx, exs, q, qt, lvl, k) ==
    IF (\A i \in DOMAIN QTypes : QTypes[i] # qt) \/ <<qt, lvl>> \notin Categories
    THEN {SearchReturned(<<>>)}
    ELSE
    LET index == idx[<<qt, lvl>>]
        examples == exs[<<qt, lvl>>]
    IN  IF ~index.present \/ Len(examples) = 0 THEN {SearchReturned(<<>>)}
        ELSE IF k < 1 THEN {SearchRaised}
        ELSE {SearchReturned([i \in DOMAIN labels |->
                                 IF labels[i] = 0 THEN examples[Len(examples)]
                                 ELSE examples[labels[i]]]) :
                 labels \in faiss_search(index.vecs, q, k)}

\* SemanticIndex.search: the set of its possible outcomes (index.search
\* asserts k > 0)
SemanticIndex_search(idx, exs, q, qt, lvl, k) ==
    IF (\A i \in DOMAIN QTypes : QTypes[i] # qt) \/ <<qt, lvl>> \notin Categories
    THEN {SearchReturned(<<>>)}
    ELSE
    LET index == idx[<<qt, lvl>>]
        examples == exs[<<qt, lvl>>]
    IN  IF ~index.present \/ Len(examples) = 0 THEN {SearchReturned(<<>>)}
        ELSE IF Min(k, Len(examples)) < 1 THEN {SearchRaised}
        ELSE {SearchReturned(pick_examples(examples, labels)) :
                 labels \in faiss_search(index.vecs, q, Min(k, Len(examples)))}

\* grouped[q_type][level] of build_index
grouped(ps, c) == SelectSeq(ps, LAMBDA p : CategoryOf(p) = c)

\* self.indexed_examples after build_index(ps, embeddings): a category that
\* received no example is skipped
build_examples(exs, ps) ==
    [c \in Categories |-> IF Len(grouped(ps, c)) = 0 THEN exs[c] ELSE grouped(ps, c)]

\* self.indices after build_index(ps, embeddings)
build_indices(idx, ps) ==
    [c \in Categories |->
        IF Len(grouped(ps, c)) = 0 THEN idx[c]
        ELSE FlatIndex([i \in DOMAIN grouped(ps, c) |-> grouped(ps, c)[i].embedding])]

\* the index files after save(directory): one written per index held
save_files(files, idx) == [c \in Categories |-> IF idx[c].present THEN idx[c] ELSE files[c]]

\* a load that reads the examples and no index file
load_no_index(idx, files) == idx

\* self.indices after load(directory): one read per file that exists
load_indices(idx, files) == [c \in Categories |-> IF files[c].present THEN files[c] ELSE idx[c]]

NoPickle == [present |-> FALSE, data |-> [c \in Categories |-> <<>>]]
NoSearch == [asked |-> FALSE, question_type |-> "", level |-> "", top_k |-> 0,
             query |-> <<0, 0>>, raised |-> FALSE, result |-> <<>>]
NoBuild == [valid |-> FALSE, empty |-> {}]

----------------------------------------------------------------------------
(* the index: instances constructed, built, saved to and loaded from one    *)
(* directory, and searched                                                  *)

MaxPatterns == 2
MaxK == 3

\* the training patterns with their embeddings
Pool == { IndexedExample(1, "bridge", "easy", <<1, 0>>),
          IndexedExample(2, "bridge", "easy", <<0, 2>>),
          IndexedExample(3, "comparison", "hard", <<1, 1>>) }

\* the lists of distinct patterns handed to build_index
Builds == {ps \in SeqsUpTo(Pool, MaxPatterns) :
              \A i, j \in DOMAIN ps : i # j => ps[i].id # ps[j].id}

Queries == { <<1, 1>>, <<1, 0>> }
\* known categories, an unknown level and an unknown question type
SearchCategories == { <<"bridge", "easy">>, <<"comparison", "hard">>,
                      <<"bridge", "expert">>, <<"other", "easy">> }

VerifierUnused ==
    /\ pal_result = NoDict
    /\ cot_result = NoDict
    /\ question = <<>>
    /\ prefer_pal = <<>>
    /\ returned = <<>>

VoteUnused ==
    /\ answers = <<>>
    /\ vote_out = NotCalled

verifier_vars == <<pal_result, cot_result, question, prefer_pal, returned, answers, vote_out, pc>>

\* SemanticIndex(): no index, six empty example lists; an empty directory
InitIndex ==
    /\ indices = [c \in Categories |-> NoIndex]
    /\ indexed_examples = [c \in Categories |-> <<>>]
    /\ dir_files = [c \in Categories |-> NoIndex]
    /\ dir_pickle = NoPickle
    /\ last_build = NoBuild
    /\ found = NoSearch
    /\ pc = "input"
    /\ VerifierUnused
    /\ VoteUnused
    /\ RetrieverUnused
    /\ PatternUnused
    /\ NormalizerUnused
    /\ SolversUnused

\* a fresh SemanticIndex replaces the live one
Construct ==
    /\ indices' = [c \in Categories |-> NoIndex]
    /\ indexed_examples' = [c \in Categories |-> <<>>]
    /\ last_build' = NoBuild
    /\ found' = NoSearch
    /\ UNCHANGED <<dir_files, dir_pickle>>
    /\ UNCHANGED <<verifier_vars, retriever_vars, extracted, norm, solver_vars>>

\* build_index(ps, embeddings), the embeddings being those of the patterns
Build(ps) ==
    /\ indexed_examples' = build_examples(indexed_examples, ps)
    /\ indices' = build_indices(indices, ps)
    /\ last_build' = [valid |-> TRUE, empty |-> {c \in Categories : Len(grouped(ps, c)) = 0}]
    /\ found' = NoSearch
    /\ UNCHANGED <<dir_files, dir_pickle>>
    /\ UNCHANGED <<verifier_vars, retriever_vars, extracted, norm, solver_vars>>

\* save(directory)
Save ==
    /\ dir_files' = save_files(dir_files, indices)
    /\ dir_pickle' = [present |-> TRUE, data |-> indexed_examples]
    /\ found' = NoSearch
    /\ UNCHANGED <<indices, indexed_examples, last_build>>
    /\ UNCHANGED <<verifier_vars, retriever_vars, extracted, norm, solver_vars>>

\* load(directory) of a directory that holds indexed_examples.pkl (it raises
\* on one that does not, which then holds no index file either)
Load ==
    /\ dir_pickle.present
    /\ indices' = load_indices(indices, dir_files)
    /\ indexed_examples' = dir_pickle.data
    /\ last_build' = NoBuild
    /\ found' = NoSearch
    /\ UNCHANGED <<dir_files, dir_pickle>>
    /\ UNCHANGED <<verifier_vars, retriever_vars, extracted, norm, solver_vars>>

\* search(q, qt, lvl, k)
Search(q, qt, lvl, k) ==
    /\ \E out \in SemanticIndex_search(indices, indexed_examples, q, qt, lvl, k) :
          found' = [asked |-> TRUE, question_type |-> qt, level |-> lvl, top_k |-> k,
                    query |-> q, raised |-> out.raised, result |-> out.result]
    /\ UNCHANGED <<indices, indexed_examples, dir_files, dir_pickle, last_build>>
    /\ UNCHANGED <<verifier_vars, retriever_vars, extracted, norm, solver_vars>>

NextIndex ==
    \/ Construct
    \/ \E ps \in Builds : Build(ps)
    \/ Save
    \/ Load
    \/ \E q \in Queries, c \in SearchCategories, k \in 0..MaxK : Search(q, c[1], c[2], k)

SpecIndex == InitIndex /\ [][NextIndex]_vars

----------------------------------------------------------------------------
(* Claims about SemanticIndex *)

SearchedCategory == <<found.question_type, found.level>>
SearchedKnown == SearchedCategory \in Categories
SearchedExamples == IF SearchedKnown THEN indexed_examples[SearchedCategory] ELSE <<>>
EmbeddingsOf(examples) == [i \in DOMAIN examples |-> examples[i].embedding]

\* C11: a search of a (question_type, level) that the index does not know or
\* that holds no examples returns the empty list and does not raise, in every
\* state reached by construction, build_index, save and load.
C11_UnknownOrEmpty ==
    (found.asked /\ Len(SearchedExamples) = 0) =>
        (~found.raised /\ found.result = <<>>)

\* a category has been searched whose index was loaded from a file while its
\* example list is empty
C11_Witness ==
    /\ found.asked
    /\ SearchedKnown
    /\ indices[SearchedCategory].present
    /\ Len(SearchedExamples) = 0
    /\ found.top_k >= 1
    /\ found.result = <<>>

\* C12: in a category of n >= 1 examples a search with top_k >= 1 returns,
\* without raising, exactly min(top_k, n) distinct examples of that category
\* (all n of them when top_k > n).
C12_Clamped ==
    (found.asked /\ Len(SearchedExamples) >= 1 /\ found.top_k >= 1) =>
        /\ ~found.raised
        /\ Len(found.result) = Min(found.top_k, Len(SearchedExamples))
        /\ \A i \in DOMAIN found.result :
              /\ CategoryOf(found.result[i]) = SearchedCategory
              /\ \E j \in DOMAIN SearchedExamples : SearchedExamples[j] = found.result[i]
        /\ \A i, j \in DOMAIN found.result : i # j => found.result[i] # found.result[j]
        /\ found.top_k > Len(SearchedExamples) =>
              \A j \in DOMAIN SearchedExamples :
                  \E i \in DOMAIN found.result : found.result[i] = SearchedExamples[j]

\* three examples were asked of a category of two
C12_Witness ==
    /\ found.asked
    /\ Len(SearchedExamples) = 2
    /\ found.top_k = 3
    /\ Len(found.result) = 2

\* C14: after build_index returns, on any build of the instance, a search of
\* a category that received no example in that build returns the empty list.
C14_SkippedCategoryEmpty ==
    (found.asked /\ last_build.valid /\ SearchedCategory \in last_build.empty) =>
        (~found.raised /\ found.result = <<>>)

----------------------------------------------------------------------------
(* few_shot_retriever.py *)

\* a numpy array: its dtype, its ndim and its items along the first axis,
\* each flattened (the rows of a 2-D array)
Array(dtype, ndim, data) == [dtype |-> dtype, ndim |-> ndim, data |-> data]

\* the file at cache_path: absent, or a pickle that loads or does not, of an
\* array or of something else
NoFile == [exists |-> FALSE, readable |-> FALSE, is_array |-> FALSE,
           array |-> Array("float32", 1, <<>>)]
CacheFile(readable, is_array, arr) ==
    [exists |-> TRUE, readable |-> readable, is_array |-> is_array, array |-> arr]

\* self.model.encode of one question
encode(q) ==
    CASE q = "a" -> <<1, 0>>
      [] q = "b" -> <<0, 2>>
      [] OTHER -> <<1, 1>>

\* _compute_embeddings: the (n, d) float32 array of the training questions,
\* written to the cache and returned
compute_embeddings(td) ==
    LET embeddings == Array("float32", 2, [i \in DOMAIN td |-> encode(td[i][1])])
    IN  [embeddings |-> embeddings, cache |-> CacheFile(TRUE, TRUE, embeddings)]

\* a validation that does not compare the row count with the training data
cache_valid_any_rows(file, td) ==
    /\ file.exists
    /\ file.readable
    /\ file.is_array
    /\ file.array.dtype # "object"
    /\ file.array.ndim = 2

\* the one path of _load_or_compute_embeddings that returns the cached array
cache_valid(file, td) ==
    /\ file.exists
    /\ file.readable
    /\ file.is_array
    /\ file.array.dtype # "object"
    /\ file.array.ndim = 2
    /\ Len(file.array.data) = Len(td)

\* _load_or_compute_embeddings: every other path removes the file, when there
\* is one, and ends in _compute_embeddings, which writes it anew
load_or_compute_embeddings(file, td) ==
    IF cache_valid(file, td)
    THEN [embeddings |-> file.array, cache |-> file]
    ELSE compute_embeddings(td)

\* cosine_similarity(query_embedding, self.embeddings) raises unless the
\* embeddings are a 2-D numeric array of the query's width
similarity_defined(q, E) ==
    /\ E.dtype # "object"
    /\ E.ndim = 2
    /\ Len(E.data) >= 1
    /\ \A i \in DOMAIN E.data : Len(E.data[i]) = Len(encode(q))

\* np.argsort(similarities): the indices (1-based here) by ascending
\* similarity; the default sort is not stable, so equal similarities come in
\* any order
argsort(q, rows) ==
    {s \in [DOMAIN rows -> DOMAIN rows] :
        /\ \A i, j \in DOMAIN rows : i < j => s[i] # s[j]
        /\ \A i, j \in DOMAIN rows : i < j => ~CosLess(q, rows[s[j]], rows[s[i]])}

\* order[-k:][::-1] for k >= 0
last_reversed(order, k) ==
    LET n == Len(order)
        m == IF k = 0 THEN n ELSE Min(k, n)
    IN  [i \in 1..m |-> order[n + 1 - i]]

\* f"Question: {q}\nAnswer: {a}"
format_example(ex) == "Question: " \o ex[1] \o "\nAnswer: " \o ex[2]

\* retrieve(question, k) on a constructed retriever: its possible outcomes
FewShotRetriever_retrieve(self, file, q, k) ==
    LET state == IF similarity_defined(q, self.embeddings)
                 THEN [embeddings |-> self.embeddings, cache |-> file]
                 ELSE compute_embeddings(self.training_data)
    IN  {[embeddings |-> state.embeddings,
          cache |-> state.cache,
          indices |-> last_reversed(order, k),
          examples |-> [i \in DOMAIN last_reversed(order, k) |->
                           format_example(self.training_data[last_reversed(order, k)[i]])]] :
            order \in argsort(encode(q), state.embeddings.data)}

NoRetriever == [constructed |-> FALSE, training_data |-> <<>>,
                embeddings |-> Array("float32", 1, <<>>), cache_seen |-> NoFile]
NoRetrieve == [called |-> FALSE, question |-> "", k |-> 0, indices |-> <<>>, examples |-> <<>>]

----------------------------------------------------------------------------
(* the retriever: constructed over whatever the cache path holds, then      *)
(* asked for examples                                                       *)

MaxTrain == 2

\* (question, answer) pairs; two of them share their question
TrainPool == { <<"a", "1">>, <<"b", "2">>, <<"a", "3">> }
TrainingSets == SeqsUpTo(TrainPool, MaxTrain) \ {<<>>}
RetrieveQuestions == {"a", "c"}

\* what the cache path may hold before the first construction
InitialCaches ==
    { NoFile,
      CacheFile(FALSE, FALSE, Array("float32", 1, <<>>)),
      CacheFile(TRUE, FALSE, Array("float32", 1, <<>>)),
      CacheFile(TRUE, TRUE, Array("object", 2, << <<0, 2>> >>)),
      CacheFile(TRUE, TRUE, Array("float32", 1, << <<0>>, <<2>> >>)),
      CacheFile(TRUE, TRUE, Array("float32", 3, << <<0, 2>> >>)),
      CacheFile(TRUE, TRUE, Array("float32", 2, << <<0, 2>> >>)),
      CacheFile(TRUE, TRUE, Array("float32", 2, << <<5>>, <<7>> >>)),
      CacheFile(TRUE, TRUE, Array("float32", 2, [i \in 1..(MaxTrain + 1) |-> <<1, 0>>])) }

InitRetriever ==
    /\ cache \in InitialCaches
    /\ retriever = NoRetriever
    /\ retrieved = NoRetrieve
    /\ pc = "input"
    /\ VerifierUnused
    /\ VoteUnused
    /\ IndexUnused
    /\ PatternUnused
    /\ NormalizerUnused
    /\ SolversUnused

\* FewShotRetriever(td, cache_path)
NewRetriever(td) ==
    /\ LET loaded == load_or_compute_embeddings(cache, td)
       IN  /\ retriever' = [constructed |-> TRUE, training_data |-> td,
                            embeddings |-> loaded.embeddings, cache_seen |-> cache]
           /\ cache' = loaded.cache
    /\ retrieved' = NoRetrieve
    /\ UNCHANGED <<verifier_vars, index_vars, extracted, norm, solver_vars>>

\* retriever.retrieve(q, k)
Retrieve(q, k) ==
    /\ retriever.constructed
    /\ \E out \in FewShotRetriever_retrieve(retriever, cache, q, k) :
          /\ retriever' = [retriever EXCEPT !.embeddings = out.embeddings]
          /\ cache' = out.cache
          /\ retrieved' = [called |-> TRUE, question |-> q, k |-> k,
                           indices |-> out.indices, examples |-> out.examples]
    /\ UNCHANGED <<verifier_vars, index_vars, extracted, norm, solver_vars>>

NextRetriever ==
    \/ \E td \in TrainingSets : NewRetriever(td)
    \/ \E q \in RetrieveQuestions, k \in 0..MaxK : Retrieve(q, k)

SpecRetriever == InitRetriever /\ [][NextRetriever]_vars

----------------------------------------------------------------------------
(* Claims about FewShotRetriever *)

RankedRows == retriever.embeddings.data
RankedQuery == encode(retrieved.question)
SameSimilarity(i, j) ==
    /\ ~CosLess(RankedQuery, RankedRows[i], RankedRows[j])
    /\ ~CosLess(RankedQuery, RankedRows[j], RankedRows[i])

\* C13: retrieve returns the k stored examples of highest cosine similarity
\* to the query, in descending similarity; of examples of exactly equal
\* similarity the one inserted earlier is ranked first, and is the one kept
\* when the tie straddles the cut-off.
C13_Ranking ==
    (retrieved.called /\ retrieved.k >= 1) =>
        LET s == retrieved.indices
            rest == DOMAIN RankedRows \ {s[i] : i \in DOMAIN s}
        IN  /\ Len(s) = Min(retrieved.k, Len(RankedRows))
            /\ \A i \in DOMAIN s :
                  retrieved.examples[i] = format_example(retriever.training_data[s[i]])
            /\ \A i, j \in DOMAIN s : i < j =>
                  /\ s[i] # s[j]
                  /\ ~CosLess(RankedQuery, RankedRows[s[i]], RankedRows[s[j]])
                  /\ SameSimilarity(s[i], s[j]) => s[i] < s[j]
            /\ \A i \in DOMAIN s : \A x \in rest :
                  /\ ~CosLess(RankedQuery, RankedRows[s[i]], RankedRows[x])
                  /\ SameSimilarity(s[i], x) => s[i] < x

SeenCache == retriever.cache_seen
SeenGood ==
    /\ SeenCache.exists /\ SeenCache.readable /\ SeenCache.is_array
    /\ SeenCache.array.dtype # "object"
    /\ SeenCache.array.ndim = 2
    /\ Len(SeenCache.array.data) = Len(retriever.training_data)

\* C16: constructed over a cache file that is absent, unreadable, not an
\* array, of object dtype, or not 2-D with one row per training example, the
\* retriever holds freshly computed embeddings, one row per training
\* example, and the cache file holds that array; over a 2-D non-object array
\* with one row per training example it holds the cached array as it was,
\* the file untouched.
C16_CacheValidation ==
    (retriever.constructed /\ ~retrieved.called) =>
        IF SeenGood
        THEN retriever.embeddings = SeenCache.array /\ cache = SeenCache
        ELSE /\ retriever.embeddings.dtype = "float32"
             /\ retriever.embeddings.ndim = 2
             /\ Len(retriever.embeddings.data) = Len(retriever.training_data)
             /\ \A i \in DOMAIN retriever.training_data :
                   retriever.embeddings.data[i] = encode(retriever.training_data[i][1])
             /\ cache.exists /\ cache.readable /\ cache.is_array
             /\ cache.array = retriever.embeddings

\* a retriever has been constructed over a 2-D array of another row count
C16_Witness ==
    /\ retriever.constructed
    /\ ~retrieved.called
    /\ SeenCache.exists /\ SeenCache.readable /\ SeenCache.is_array
    /\ SeenCache.array.dtype = "float32"
    /\ SeenCache.array.ndim = 2
    /\ Len(SeenCache.array.data) > Len(retriever.training_data)
    /\ Len(retriever.embeddings.data) = Len(retriever.training_data)
    /\ cache # SeenCache

----------------------------------------------------------------------------
(* pattern_extractor.py *)

UpperLetters == {UpperCase[i] : i \in DOMAIN UpperCase}

\* text.split()
RECURSIVE split(_)
split(s) ==
    IF s = <<>> THEN <<>>
    ELSE IF Head(s) \in Whitespace THEN split(Tail(s))
    ELSE LET blanks == {i \in DOMAIN s : s[i] \in Whitespace}
             n == IF blanks = {} THEN Len(s) + 1
                  ELSE CHOOSE i \in blanks : \A j \in blanks : i <= j
         IN  <<SubSeq(s, 1, n - 1)>> \o split(SubSeq(s, n, Len(s)))

\* re.findall(r'"([^"]*)"', text)
RECURSIVE findall_quoted(_)
findall_quoted(s) ==
    LET quotes == {i \in DOMAIN s : s[i] = "\""}
    IN  IF Cardinality(quotes) < 2 THEN <<>>
        ELSE LET a == CHOOSE i \in quotes : \A j \in quotes : i <= j
                 b == CHOOSE i \in quotes \ {a} : \A j \in quotes \ {a} : i <= j
             IN  <<SubSeq(s, a + 1, b - 1)>> \o findall_quoted(SubSeq(s, b + 1, Len(s)))

\* the loop of _extract_entities: every maximal run of words that start with
\* an upper-case letter, joined by single spaces
RECURSIVE capitalized_runs(_, _)
capitalized_runs(words, current_entity) ==
    LET flushed == IF current_entity = <<>> THEN <<>> ELSE <<join(current_entity)>>
    IN  IF words = <<>> THEN flushed
        ELSE IF Head(words)[1] \in UpperLetters
        THEN capitalized_runs(Tail(words), Append(current_entity, Head(words)))
        ELSE flushed \o capitalized_runs(Tail(words), <<>>)

\* _extract_entities: list(set(entities)), a list without duplicates in no
\* particular order, kept as the set of its elements
extract_entities(text) ==
    LET entities == findall_quoted(text) \o capitalized_runs(split(text), <<>>)
    IN  {entities[i] : i \in DOMAIN entities}

\* _determine_hop_role(hop_idx, total_hops, question_type), hop_idx from 0
determine_hop_role(hop_idx, total_hops, question_type) ==
    IF question_type = "bridge"
    THEN IF hop_idx = 0 THEN "starter"
         ELSE IF hop_idx = total_hops - 1 THEN "final"
         ELSE "bridge"
    ELSE "comparison"

\* a fallback that compares the entity and the sentence as they are written
find_bridge_entity_cased(hops) ==
    IF Len(hops) < 2 THEN {PyNone}
    ELSE
    LET entities_1 == hops[1].entities_extracted
        entities_2 == hops[2].entities_extracted
        common == entities_1 \cap entities_2
        inside == {e \in entities_1 : contains(hops[2].sentence_text, e)}
    IN  IF common # {} THEN {PyStr(e) : e \in common}
        ELSE IF inside # {} THEN {PyStr(e) : e \in inside}
        ELSE {PyNone}

\* _find_bridge_entity: its possible results; list(common)[0] and the loop
\* over the set entities_1 take the elements in the set's iteration order
find_bridge_entity(hops) ==
    IF Len(hops) < 2 THEN {PyNone}
    ELSE
    LET entities_1 == hops[1].entities_extracted
        entities_2 == hops[2].entities_extracted
        common == entities_1 \cap entities_2
        inside == {e \in entities_1 : contains(lower(hops[2].sentence_text), lower(e))}
    IN  IF common # {} THEN {PyStr(e) : e \in common}
        ELSE IF inside # {} THEN {PyStr(e) : e \in inside}
        ELSE {PyNone}

\* the dict of _find_comparison_dimension, in its insertion order
dimensions == <<
       [dim |-> "date",
        keywords |-> { <<"f", "i", "r", "s", "t">>,
                      <<"e", "a", "r", "l", "i", "e", "r">>,
                      <<"b", "e", "f", "o", "r", "e">>,
                      <<"f", "o", "u", "n", "d", "e", "d">>,
                      <<"s", "t", "a", "r", "t", "e", "d">>,
                      <<"e", "s", "t", "a", "b", "l", "i", "s", "h", "e", "d">> }],
       [dim |-> "size",
        keywords |-> { <<"l", "a", "r", "g", "e", "r">>,
                      <<"b", "i", "g", "g", "e", "r">>,
                      <<"s", "m", "a", "l", "l", "e", "r">>,
                      <<"s", "i", "z", "e">>,
                      <<"a", "r", "e", "a">> }],
       [dim |-> "quantity",
        keywords |-> { <<"m", "o", "r", "e">>,
                      <<"l", "e", "s", "s">>,
                      <<"m", "o", "s", "t">>,
                      <<"l", "e", "a", "s", "t">>,
                      <<"n", "u", "m", "b", "e", "r">> }],
       [dim |-> "location",
        keywords |-> { <<"w", "h", "e", "r", "e">>,
                      <<"l", "o", "c", "a", "t", "e", "d">>,
                      <<"p", "l", "a", "c", "e">> }],
       [dim |-> "duration",
        keywords |-> { <<"l", "o", "n", "g", "e", "r">>,
                      <<"s", "h", "o", "r", "t", "e", "r">>,
                      <<"d", "u", "r", "a", "t", "i", "o", "n">>,
                      <<"t", "i", "m", "e">> }] >>

\* _find_comparison_dimension
find_comparison_dimension(q) ==
    LET hits == {i \in DOMAIN dimensions :
                    \E kw \in dimensions[i].keywords : contains(lower(q), kw)}
    IN  IF hits = {} THEN "unknown"
        ELSE dimensions[CHOOSE i \in hits : \A j \in hits : i <= j].dim

\* sentences[sent_id] for sent_id < len(sentences): a negative index counts
\* from the end, and raises IndexError below -len(sentences)
HopRaises(context, ref) ==
    /\ ref[1] \in DOMAIN context
    /\ ref[2] < -Len(context[ref[1]])

HopMade(context, ref) ==
    /\ ref[1] \in DOMAIN context
    /\ ref[2] < Len(context[ref[1]])

sentence_at(sentences, sent_id) ==
    IF sent_id >= 0 THEN sentences[sent_id + 1] ELSE sentences[Len(sentences) + sent_id + 1]

\* the HopInfo of supporting fact idx (from 1)
hop_of(question_type, supporting_facts, context, idx) ==
    LET doc_title == supporting_facts[idx][1]
        sent_id == supporting_facts[idx][2]
        sentence_text == sentence_at(context[doc_title], sent_id)
    IN  [document_title |-> doc_title,
         sentence_id |-> sent_id,
         sentence_text |-> sentence_text,
         entities_extracted |-> extract_entities(sentence_text),
         role |-> determine_hop_role(idx - 1, Len(supporting_facts), question_type)]

\* the loop of extract_pattern over supporting facts from..Len
RECURSIVE hops_from(_, _, _, _)
hops_from(question_type, supporting_facts, context, from) ==
    IF from > Len(supporting_facts) THEN <<>>
    ELSE (IF HopMade(context, supporting_facts[from])
          THEN <<hop_of(question_type, supporting_facts, context, from)>>
          ELSE <<>>)
         \o hops_from(question_type, supporting_facts, context, from + 1)

ExtractRaised == [raised |-> TRUE, num_hops |-> 0, hops |-> <<>>,
                  bridge_entity |-> PyNone, comparison_dimension |-> PyNone]

\* extract_pattern: its possible outcomes, the ReasoningPattern fields it
\* computes (the other fields are its arguments, copied)
extract_pattern(q, question_type, supporting_facts, context) ==
    IF \E i \in DOMAIN supporting_facts : HopRaises(context, supporting_facts[i])
    THEN {ExtractRaised}
    ELSE
    LET hops == hops_from(question_type, supporting_facts, context, 1)
        bridge_entities == IF question_type = "bridge" /\ Len(hops) >= 2
                           THEN find_bridge_entity(hops)
                           ELSE {PyNone}
        comparison_dim == IF question_type = "comparison"
                          THEN PyStr(find_comparison_dimension(q))
                          ELSE PyNone
    IN  {[raised |-> FALSE, num_hops |-> Len(hops), hops |-> hops,
          bridge_entity |-> b, comparison_dimension |-> comparison_dim] :
            b \in bridge_entities}

NoExtract == [called |-> FALSE, question |-> <<>>, question_type |-> "",
              supporting_facts |-> <<>>, out |-> ExtractRaised]

----------------------------------------------------------------------------
(* extraction: extract_pattern applied to lists of at most MaxFacts          *)
(* supporting facts over one context                                        *)

MaxFacts == 3

\* context: document title -> sentences
Context == [d \in {"A", "B"} |->
    IF d = "A" THEN << <<"A", "d", "a", " ", "m", "e", "t", " ", "\"", "B", "o", "\"">>,
                       <<"b", "o", " ", "a", "n", "d", " ", "A", "d", "a", " ", "L", "e", "e">> >>
    ELSE << <<"a", "d", "a", " ", "l", "e", "e", " ", "w", "o", "n">> >>]

\* (title, sentence id): valid ones, a missing document, an index too large,
\* negative indices inside and below -len(sentences)
Refs == { <<"A", 0>>, <<"A", 1>>, <<"B", 0>>, <<"X", 0>>, <<"A", 2>>, <<"A", -1>>, <<"B", -2>> }

PatternQuestions == { <<"W", "h", "o", " ", "w", "a", "s", " ", "f", "i", "r", "s", "t">>,
                      <<"W", "h", "i", "c", "h", " ", "h", "a", "s", " ", "m", "o", "r", "e", " ", "a", "r", "e", "a">>,
                      <<"W", "h", "y">> }

InitPattern ==
    /\ extracted = NoExtract
    /\ pc = "input"
    /\ VerifierUnused
    /\ VoteUnused
    /\ IndexUnused
    /\ RetrieverUnused
    /\ NormalizerUnused
    /\ SolversUnused

\* extractor.extract_pattern(id, q, qt, level, sf, Context, answer), once
Extract(q, qt, sf) ==
    /\ ~extracted.called
    /\ \E out \in extract_pattern(q, qt, sf, Context) :
          extracted' = [called |-> TRUE, question |-> q, question_type |-> qt,
                        supporting_facts |-> sf, out |-> out]
    /\ UNCHANGED <<verifier_vars, index_vars, retriever_vars, norm, solver_vars>>

NextPattern ==
    \E q \in PatternQuestions, qt \in {"bridge", "comparison"}, sf \in SeqsUpTo(Refs, MaxFacts) :
        Extract(q, qt, sf)

SpecPattern == InitPattern /\ [][NextPattern]_vars

----------------------------------------------------------------------------
(* Claims about PatternExtractor *)

Extracted == extracted.called /\ ~extracted.out.raised
Hops == extracted.out.hops

\* the supporting facts that name a sentence of the context
ValidRef(ref) ==
    /\ ref[1] \in DOMAIN Context
    /\ 0 <= ref[2]
    /\ ref[2] < Len(Context[ref[1]])

ValidFacts == SelectSeq(extracted.supporting_facts, ValidRef)

\* C17: in the hops of a 'bridge' question the first has role 'starter', the
\* last has role 'final' and every hop between them has role 'bridge',
\* whether or not references were skipped.
C17_RolesByPosition ==
    (Extracted /\ extracted.question_type = "bridge" /\ Len(Hops) >= 2) =>
        \A i \in DOMAIN Hops :
            Hops[i].role = IF i = 1 THEN "starter"
                           ELSE IF i = Len(Hops) THEN "final"
                           ELSE "bridge"

\* C18: extract_pattern does not raise; its hops are the supporting facts
\* whose document is in the context and whose sentence index is within
\* 0..len(sentences)-1, in their order, each with its sentence, every other
\* reference being skipped; num_hops is the number of hops.
C18_InvalidSkipped ==
    extracted.called =>
        /\ ~extracted.out.raised
        /\ extracted.out.num_hops = Len(Hops)
        /\ Len(Hops) = Len(ValidFacts)
        /\ \A i \in DOMAIN ValidFacts :
              /\ Hops[i].document_title = ValidFacts[i][1]
              /\ Hops[i].sentence_id = ValidFacts[i][2]
              /\ Hops[i].sentence_text = Context[ValidFacts[i][1]][ValidFacts[i][2] + 1]

CommonEntities == Hops[1].entities_extracted \cap Hops[2].entities_extracted
InsideSecond ==
    {e \in Hops[1].entities_extracted : contains(lower(Hops[2].sentence_text), lower(e))}

\* C19: bridge_entity is None unless the question is 'bridge' and has at
\* least two hops; then it is a common entity of the first two hops when
\* they have one, else an entity of the first hop that occurs, whatever the
\* case, in the second hop's sentence, else None; when not None it is an
\* entity of the first hop.
C19_BridgeEntity ==
    Extracted =>
        LET b == extracted.out.bridge_entity
        IN  IF extracted.question_type = "bridge" /\ Len(Hops) >= 2
            THEN /\ CommonEntities # {} => (b.type = "str" /\ b.s \in CommonEntities)
                 /\ (CommonEntities = {} /\ InsideSecond # {}) =>
                        (b.type = "str" /\ b.s \in InsideSecond)
                 /\ (CommonEntities = {} /\ InsideSecond = {}) => b = PyNone
                 /\ b # PyNone => b.s \in Hops[1].entities_extracted
            ELSE b = PyNone

\* the first two hops share no entity and the bridge entity is written in
\* another case in the second hop's sentence
C19_Witness ==
    /\ Extracted
    /\ extracted.question_type = "bridge"
    /\ Len(Hops) >= 2
    /\ CommonEntities = {}
    /\ extracted.out.bridge_entity.type = "str"
    /\ ~contains(Hops[2].sentence_text, extracted.out.bridge_entity.s)

----------------------------------------------------------------------------
(* normalizer.py *)

Digits == {DigitChars[i] : i \in DOMAIN DigitChars}
DigitValue(c) == (CHOOSE i \in DOMAIN DigitChars : DigitChars[i] = c) - 1
AllDigits(s) == \A i \in DOMAIN s : s[i] \in Digits

RECURSIVE digits_value(_)
digits_value(ds) ==
    IF ds = <<>> THEN 0
    ELSE 10 * digits_value(SubSeq(ds, 1, Len(ds) - 1)) + DigitValue(ds[Len(ds)])

RECURSIVE Pow10(_)
Pow10(n) == IF n <= 0 THEN 1 ELSE 10 * Pow10(n - 1)

starts_with(s, p) == Len(s) >= Len(p) /\ SubSeq(s, 1, Len(p)) = p

RECURSIVE lstrip(_)
lstrip(s) == IF s # <<>> /\ Head(s) \in Whitespace THEN lstrip(Tail(s)) ELSE s

\* re.sub(r'####\s*', '', s)
RECURSIVE sub_hashes(_)
sub_hashes(s) ==
    IF s = <<>> THEN <<>>
    ELSE IF starts_with(s, <<"#", "#", "#", "#">>)
    THEN sub_hashes(lstrip(SubSeq(s, 5, Len(s))))
    ELSE <<Head(s)>> \o sub_hashes(Tail(s))

\* s.replace(old, '')
RECURSIVE replace_away(_, _)
replace_away(s, old) ==
    IF s = <<>> THEN <<>>
    ELSE IF starts_with(s, old) THEN replace_away(SubSeq(s, Len(old) + 1, Len(s)), old)
    ELSE <<Head(s)>> \o replace_away(Tail(s), old)

\* the grave accent (U+0060), which a TLA+ string cannot hold
GraveAccent == "grave"

\* lines 19-24: the answer, stripped, without markdown artifacts
clean_answer(s) ==
    replace_away(
        replace_away(remove(sub_hashes(strip(s)), {"*", GraveAccent, "[", "]"}), <<"<", "<">>),
        <<">", ">">>)

\* line 30: answer.replace('$', '').replace(',', '').strip()
num_str_of(answer) == strip(remove(answer, {"$", ","}))

\* a float: finite ((-1)^neg * mant / 10^dec, dec as small as can be), an
\* infinity or nan; a string that float() rejects (ValueError)
Finite(neg, mant, dec) == [special |-> "finite", neg |-> neg, mant |-> mant, dec |-> dec]
Infinity(neg) == [special |-> "inf", neg |-> neg, mant |-> 0, dec |-> 0]
NaN == [special |-> "nan", neg |-> FALSE, mant |-> 0, dec |-> 0]
Rejected == [special |-> "ValueError", neg |-> FALSE, mant |-> 0, dec |-> 0]

RECURSIVE shortest(_, _, _)
shortest(neg, mant, dec) ==
    IF dec > 0 /\ mant % 10 = 0 THEN shortest(neg, mant \div 10, dec - 1)
    ELSE Finite(neg, mant, dec)

\* the largest double has 309 digits before its point
MaxFloatDigits == 309

\* the index of the first c in s, Len(s) + 1 when there is none
first_index(s, c) ==
    IF \E i \in DOMAIN s : s[i] = c
    THEN CHOOSE i \in DOMAIN s : s[i] = c /\ \A j \in 1..(i - 1) : s[j] # c
    ELSE Len(s) + 1

\* the value of an optionally signed run of digits
signed_value(s) ==
    IF s # <<>> /\ s[1] = "-" THEN 0 - digits_value(Tail(s))
    ELSE IF s # <<>> /\ s[1] = "+" THEN digits_value(Tail(s))
    ELSE digits_value(s)

signed_digits(s) ==
    IF s # <<>> /\ s[1] \in {"+", "-"} THEN Len(s) >= 2 /\ AllDigits(Tail(s))
    ELSE s # <<>> /\ AllDigits(s)

\* the float mant / 10^dec, mant > 0
float_value(neg, mant, dec) ==
    IF Len(int_str(mant)) - dec > MaxFloatDigits THEN Infinity(neg)
    ELSE IF dec >= 0 THEN shortest(neg, mant, dec)
    ELSE Finite(neg, mant * Pow10(0 - dec), 0)

\* the float of the digits before and after the point and of the exponent
float_of_digits(neg, whole, fraction, exponent) ==
    IF ~(AllDigits(whole) /\ AllDigits(fraction) /\ Len(whole) + Len(fraction) >= 1)
    THEN Rejected
    ELSE IF digits_value(whole \o fraction) = 0 THEN Finite(neg, 0, 0)
    ELSE float_value(neg, digits_value(whole \o fraction), Len(fraction) - signed_value(exponent))

float_of_parts(neg, mantissa, exponent) ==
    float_of_digits(neg,
                    SubSeq(mantissa, 1, first_index(mantissa, ".") - 1),
                    SubSeq(mantissa, first_index(mantissa, ".") + 1, Len(mantissa)),
                    exponent)

\* the float of a lower-case literal without its sign
float_of_body(neg, body) ==
    IF body \in {<<"i", "n", "f">>, <<"i", "n", "f", "i", "n", "i", "t", "y">>}
    THEN Infinity(neg)
    ELSE IF body = <<"n", "a", "n">> THEN NaN
    ELSE IF first_index(body, "e") > Len(body) THEN float_of_parts(neg, body, <<"0">>)
    ELSE IF ~signed_digits(SubSeq(body, first_index(body, "e") + 1, Len(body))) THEN Rejected
    ELSE float_of_parts(neg,
                        SubSeq(body, 1, first_index(body, "e") - 1),
                        SubSeq(body, first_index(body, "e") + 1, Len(body)))

\* float(s) for a stripped s without underscores: sign, digits with at most
\* one point, exponent; inf, infinity and nan in any case. A decimal of up to
\* 15 significant digits stands for the double nearest to it.
py_float(s) ==
    IF s # <<>> /\ s[1] \in {"+", "-"}
    THEN float_of_body(s[1] = "-", lower(Tail(s)))
    ELSE float_of_body(FALSE, lower(s))

\* lines 32-35: num, an int or a float, or the exception of the conversion
Num(type, value) == [type |-> type, value |-> value, error |-> "none"]
NumError(error) == [type |-> "none", value |-> Rejected, error |-> error]

\* math.trunc of a finite float
trunc(v) == v.mant \div Pow10(v.dec)

\* float(num_str) when is_float, int(float(num_str)) otherwise, v being
\* float(num_str)
typed_num(v, is_float) ==
    IF v.special = "ValueError" THEN NumError("ValueError")
    ELSE IF is_float THEN Num("float", v)
    ELSE IF v.special = "inf" THEN NumError("OverflowError")
    ELSE IF v.special = "nan" THEN NumError("ValueError")
    ELSE Num("int", Finite(v.neg /\ trunc(v) # 0, trunc(v), 0))

parse_num(num_str) ==
    typed_num(py_float(num_str),
              contains(num_str, <<".">>) \/ contains(lower(num_str), <<"e">>))

\* str(n) of an int
signed_str(neg, n) == (IF neg /\ n # 0 THEN <<"-">> ELSE <<>>) \o int_str(n)

NormReturned(s) == [raised |-> "none", out |-> s]
NormError(error) == [raised |-> error, out |-> <<>>]

\* str(int(num))
str_int(num) ==
    IF num.value.special = "inf" THEN NormError("OverflowError")
    ELSE IF num.value.special = "nan" THEN NormError("ValueError")
    ELSE NormReturned(signed_str(num.value.neg, trunc(num.value)))

\* the decimal digits of n, zero-filled to width w
RECURSIVE zfill(_, _)
zfill(n, w) == IF w = 0 THEN <<>> ELSE Append(zfill(n \div 10, w - 1), DigitChars[(n % 10) + 1])

special_str(v) ==
    (IF v.neg THEN <<"-">> ELSE <<>>) \o
    (IF v.special = "inf" THEN <<"i", "n", "f">> ELSE <<"n", "a", "n">>)

hundredths_str(neg, h) ==
    (IF neg THEN <<"-">> ELSE <<>>) \o int_str(h \div 100) \o <<".">> \o zfill(h % 100, 2)

\* f"{num:.2f}": the possible results; a decimal halfway between two
\* hundredths stands for a double on either side of it
format_2f(num) ==
    LET v == num.value
        unit == Pow10(v.dec - 2)
        down == v.mant \div unit
        rest == v.mant % unit
    IN  IF v.special # "finite" THEN {NormReturned(special_str(v))}
        ELSE IF v.dec <= 2
        THEN {NormReturned(hundredths_str(v.neg, v.mant * Pow10(2 - v.dec)))}
        ELSE IF 2 * rest < unit THEN {NormReturned(hundredths_str(v.neg, down))}
        ELSE IF 2 * rest > unit THEN {NormReturned(hundredths_str(v.neg, down + 1))}
        ELSE {NormReturned(hundredths_str(v.neg, down)),
              NormReturned(hundredths_str(v.neg, down + 1))}

\* str(num) of an int, or of a float that is not whole, of magnitude 1e-4 to
\* 1e16: the shortest decimal that reads back as it
str_num(num) ==
    LET v == num.value
    IN  IF v.special # "finite" THEN NormReturned(special_str(v))
        ELSE IF num.type = "int" THEN NormReturned(signed_str(v.neg, v.mant))
        ELSE IF v.dec = 0
        THEN NormReturned((IF v.neg THEN <<"-">> ELSE <<>>) \o int_str(v.mant) \o <<".", "0">>)
        ELSE NormReturned((IF v.neg THEN <<"-">> ELSE <<>>) \o int_str(trunc(v))
                          \o <<".">> \o zfill(v.mant % Pow10(v.dec), v.dec))

how_many(q) == contains(lower(q), <<"h", "o", "w", " ", "m", "a", "n", "y">>)
currency(q) ==
    \/ contains(q, <<"$">>)
    \/ contains(lower(q), <<"d", "o", "l", "l", "a", "r">>)
    \/ contains(lower(q), <<"c", "o", "s", "t">>)
    \/ contains(lower(q), <<"p", "r", "i", "c", "e">>)

\* a formatting that looks for currency before it looks for 'how many'
format_num_currency_first(num, q) ==
    IF currency(q) THEN format_2f(num)
    ELSE IF how_many(q) THEN {str_int(num)}
    ELSE IF num.type = "float" /\ num.value.special = "finite" /\ num.value.dec = 0
    THEN {str_int(num)}
    ELSE {str_num(num)}

\* lines 38-46: the possible outcomes
format_num(num, q) ==
    IF how_many(q) THEN {str_int(num)}
    ELSE IF currency(q) THEN format_2f(num)
    ELSE IF num.type = "float" /\ num.value.special = "finite" /\ num.value.dec = 0
    THEN {str_int(num)}
    ELSE {str_num(num)}

\* except (ValueError, TypeError): return answer.strip()
catch_value_error(answer, o) ==
    IF o.raised = "ValueError" THEN NormReturned(strip(answer)) ELSE o

\* lines 28-50, answer being the cleaned answer and num the parsed number
normalize_num(answer, num, q) ==
    IF num.error # "none" THEN {catch_value_error(answer, NormError(num.error))}
    ELSE {catch_value_error(answer, o) : o \in format_num(num, q)}

normalize_cleaned(answer, q) == normalize_num(answer, parse_num(num_str_of(answer)), q)

\* normalize_answer(answer, question): the possible outcomes; a ValueError
\* is caught (the cleaned answer is returned), an OverflowError is not
normalize_answer(a, q) == normalize_cleaned(clean_answer(py_str(a)), q)

\* the record of a run: the call made and its outcome, and the outcome of the
\* second call made on its result
NoNorm == [called |-> FALSE, answer |-> PyNone, question |-> <<>>, raised |-> "none", out |-> <<>>,
           again |-> FALSE, again_raised |-> "none", again_out |-> <<>>]

----------------------------------------------------------------------------
(* normalization: normalize_answer applied to one answer and one question   *)

NormPrefixes == { <<>>, <<"$", " ", " ">>, <<"#", "#", "#", "#", " ">>, <<"*", "*">>,
                  <<"#", "#", "*", "#", "#", " ">> }
NormCores == { <<"7">>,
               <<"2", ".", "7">>,
               <<"1", ",", "2", "3", "4", ".", "5", "0">>,
               <<"1", "e", "3">>,
               <<"-", "3">>,
               <<"i", "n", "f">>,
               <<"a", "b", "c">>,
               <<"2", ".", "7", "1", "8">>,
               <<"1", "e", "9", "9", "9">>,
               <<"n", "a", "n">>,
               <<"-", "0", ".", "5">>,
               <<"2", ".", "6", "7", "5">>,
               <<"7", ".", "0", " ">>,
               <<"i", "n", "f", "i", "n", "i", "t", "y">>,
               <<>>,
               <<"<", ">", ">", "<">> }
\* what main.py hands over: the verifier's final_answer, a str, an int, a
\* float or None
NormAnswers == {PyStr(pre \o core) : pre \in NormPrefixes, core \in NormCores}
                   \cup {PyInt(1000), PyFloat(80), PyNone}
NormQuestions == { <<"H", "o", "w", " ", "m", "a", "n", "y", " ", "a", "p", "p", "l", "e", "s", "?">>,
                   <<"W", "h", "a", "t", " ", "i", "s", " ", "t", "h", "e", " ", "t", "o", "t", "a", "l", " ", "c", "o", "s", "t", "?">>,
                   <<"H", "o", "w", " ", "m", "a", "n", "y", " ", "d", "o", "l", "l", "a", "r", "s", "?">>,
                   <<"W", "h", "a", "t", " ", "i", "s", " ", "x", "?">>,
                   <<"W", "h", "a", "t", " ", "P", "R", "I", "C", "E", "?">> }

InitNormalizer ==
    /\ norm = NoNorm
    /\ pc = "input"
    /\ VerifierUnused
    /\ VoteUnused
    /\ IndexUnused
    /\ RetrieverUnused
    /\ PatternUnused
    /\ SolversUnused

\* normalize_answer(a, q), once
Normalize(a, q) ==
    /\ ~norm.called
    /\ \E o \in normalize_answer(a, q) :
          norm' = [NoNorm EXCEPT !.called = TRUE, !.answer = a, !.question = q,
                                 !.raised = o.raised, !.out = o.out]
    /\ UNCHANGED <<verifier_vars, index_vars, retriever_vars, extracted, solver_vars>>

\* normalize_answer(normalize_answer(a, q), q): the call made again on the
\* string it returned, with the same question
Renormalize ==
    /\ norm.called
    /\ norm.raised = "none"
    /\ ~norm.again
    /\ \E o \in normalize_answer(PyStr(norm.out), norm.question) :
          norm' = [norm EXCEPT !.again = TRUE, !.again_raised = o.raised,
                               !.again_out = o.out]
    /\ UNCHANGED <<verifier_vars, index_vars, retriever_vars, extracted, solver_vars>>

NextNormalizer ==
    \/ \E a \in NormAnswers, q \in NormQuestions : Normalize(a, q)
    \/ Renormalize

SpecNormalizer == InitNormalizer /\ [][NextNormalizer]_vars

----------------------------------------------------------------------------
(* Claims about normalize_answer *)

\* the number the cleaned answer stands for
NormNumber == py_float(num_str_of(clean_answer(py_str(norm.answer))))
ParsesAsNumber == NormNumber.special = "finite"
QuestionHowMany == contains(lower(norm.question), <<"h", "o", "w", " ", "m", "a", "n", "y">>)
QuestionCurrency ==
    \/ contains(norm.question, <<"$">>)
    \/ \E w \in { <<"d", "o", "l", "l", "a", "r">>, <<"c", "o", "s", "t">>,
                  <<"p", "r", "i", "c", "e">> } : contains(lower(norm.question), w)

Unsigned(s) == IF s # <<>> /\ s[1] = "-" THEN Tail(s) ELSE s

\* digits only, after an optional minus sign, without leading zero
IntegerForm(s) ==
    /\ Unsigned(s) # <<>>
    /\ AllDigits(Unsigned(s))
    /\ Len(Unsigned(s)) > 1 => Unsigned(s)[1] # "0"

\* digits, a point and exactly two digits
TwoDecimalForm(s) ==
    LET u == Unsigned(s)
    IN  /\ Len(u) >= 4
        /\ u[Len(u) - 2] = "."
        /\ AllDigits(SubSeq(u, 1, Len(u) - 3))
        /\ AllDigits(SubSeq(u, Len(u) - 1, Len(u)))

\* digits, a point and digits of which the last is not 0
ShortestDecimalForm(s) ==
    LET u == Unsigned(s)
        dots == {i \in DOMAIN u : u[i] = "."}
    IN  /\ Cardinality(dots) = 1
        /\ \A i \in DOMAIN u : u[i] \in Digits \cup {"."}
        /\ u[1] # "."
        /\ u[Len(u)] \notin {"0", "."}

\* the value of s is that of the number, to within half a hundredth
WithinHalfHundredth(s) ==
    LET o == py_float(s)
        v == NormNumber
        scale == Pow10(IF v.dec > 2 THEN v.dec ELSE 2)
        a == v.mant * (scale \div Pow10(v.dec))
        b == o.mant * (scale \div Pow10(o.dec))
        d == IF a > b THEN a - b ELSE b - a
    IN  /\ o.special = "finite"
        /\ 2 * d * 100 <= scale
        /\ o.mant # 0 => o.neg = v.neg

C20_Example ==
    /\ norm.called
    /\ norm.answer = PyStr(<<"$", " ", " ", "1", ",", "2", "3", "4", ".", "5", "0">>)
    /\ norm.question = <<"W", "h", "a", "t", " ", "i", "s", " ", "t", "h", "e", " ", "t", "o", "t", "a", "l", " ", "c", "o", "s", "t", "?">>
    /\ norm.out = <<"1", "2", "3", "4", ".", "5", "0">>

CleanedAnswer == strip(clean_answer(py_str(norm.answer)))

\* C21: normalize_answer is total: for every answer (including 'inf',
\* 'infinity', 'nan', '1e999' and the empty string) and every question it
\* returns a string and never raises; when the cleaned answer cannot be
\* formatted as a number the cleaned string is returned unchanged.
C21_Total ==
    norm.called =>
        /\ norm.raised = "none"
        /\ NormNumber.special \in {"ValueError", "nan"} => norm.out = CleanedAnswer

\* C29: normalize_answer is idempotent for a fixed question: the call made
\* again on a returned string returns that string; the returned string
\* holds no '####' terminator and no markdown character (* ` [ ]).
C29_Idempotent ==
    /\ norm.again => (norm.again_raised = "none" /\ norm.again_out = norm.out)
    /\ (norm.called /\ norm.raised = "none") =>
           /\ ~contains(norm.out, <<"#", "#", "#", "#">>)
           /\ \A i \in DOMAIN norm.out : norm.out[i] \notin {"*", GraveAccent, "[", "]"}

----------------------------------------------------------------------------
(* Claims about the size of what retrieve returns *)

\* C30: for every k >= 0 and a training set of n examples, retrieve returns
\* exactly min(k, n) examples (never more than k, none for k = 0), each a
\* distinct training example formatted as 'Question: ...\nAnswer: ...'.
C30_ResultSize ==
    retrieved.called =>
        /\ Len(retrieved.examples) = Min(retrieved.k, Len(retriever.training_data))
        /\ Len(retrieved.indices) = Len(retrieved.examples)
        /\ \A i, j \in DOMAIN retrieved.indices :
              i # j => retrieved.indices[i] # retrieved.indices[j]
        /\ \A i \in DOMAIN retrieved.examples :
              /\ retrieved.indices[i] \in DOMAIN retriever.training_data
              /\ retrieved.examples[i] =
                     format_example(retriever.training_data[retrieved.indices[i]])

----------------------------------------------------------------------------
(* Claims about the result of Verifier.verify *)

Methods == { "both_agree", "cot_complex_problem", "pal_simple_arithmetic",
             "cot_high_confidence", "cot_medium_confidence", "pal_default",
             "pal_only", "cot_only", "fallback" }

\* the string forms of the candidates that succeeded
SucceededForms ==
    {py_str(PalValue) : b \in {x \in {TRUE} : PalSucceeded}}
        \cup {py_str(CotValue) : b \in {x \in {TRUE} : CotSucceeded}}

IsZero(c) == ~FracLess(c, Frac(0, 1)) /\ ~FracLess(Frac(0, 1), c)

\* C27: for every input whose CoT confidence is in [0, 1], verify returns one
\* of the nine methods with a confidence in [0, 1]; the confidence is 0.0 if
\* and only if the method is 'fallback', and at least 0.60 otherwise;
\* final_answer is the fallback's '0' only when both candidates failed, and
\* otherwise the string form of a candidate that succeeded.
C27_ResultInvariant ==
    \A i \in Instances :
        (Called(i) /\ FracGE(CotConfidence, Frac(0, 1)) /\ FracGE(Frac(1, 1), CotConfidence)) =>
            /\ returned[i].method \in Methods
            /\ FracGE(returned[i].confidence, Frac(0, 1))
            /\ FracGE(Frac(1, 1), returned[i].confidence)
            /\ IsZero(returned[i].confidence) <=> returned[i].method = "fallback"
            /\ returned[i].method # "fallback" => FracGE(returned[i].confidence, Frac(6, 10))
            /\ returned[i].method = "fallback" <=> (~PalSucceeded /\ ~CotSucceeded)
            /\ returned[i].method = "fallback" => returned[i].final_answer = <<"0">>
            /\ returned[i].method # "fallback" => returned[i].final_answer \in SucceededForms

\* only CoT succeeded, with a confidence below 0.60, and verify answered
\* with its value at confidence 0.60
C27_Witness ==
    \E i \in Instances :
        /\ Called(i)
        /\ ~PalSucceeded /\ CotSucceeded
        /\ FracLess(CotConfidence, Frac(6, 10))
        /\ returned[i] = Result(py_str(CotValue), "cot_only", Frac(6, 10))

----------------------------------------------------------------------------
(* cot_solver.py, pal_solver.py: one call of the provider with retries      *)
(* (CoTSolver._generate_reasoning, PALSolver._generate_code)                *)

\* max_retries of _generate_reasoning and of _generate_code
GenerateMaxRetries == 3

\* what the call did, in order: a sleep of n seconds, the request of attempt
\* n, the exception a request raised (its message), the response it returned
\* (its content)
Event(kind, n, msg) == [kind |-> kind, n |-> n, msg |-> msg]

\* a classification that takes every error for a rate limit
rate_limited_always(msg) == TRUE

\* "rate_limit" in error_msg or "429" in error_msg, error_msg = str(e).lower()
rate_limited(msg) ==
    \/ contains(lower(msg), <<"r", "a", "t", "e", "_", "l", "i", "m", "i", "t">>)
    \/ contains(lower(msg), <<"4", "2", "9">>)

\* if attempt > 0: time.sleep(1)
delay_before(attempt) == IF attempt > 0 THEN <<Event("sleep", 1, <<>>)>> ELSE <<>>

NoCall == [solver |-> "none", status |-> "idle", attempt |-> 0, log |-> <<>>,
           result |-> <<>>, error |-> <<>>]

\* the except branch: the state of the call after the request of this
\* attempt raised an exception of message msg
after_error(c, msg) ==
    LET tried == c.log \o delay_before(c.attempt)
                     \o <<Event("request", c.attempt, <<>>), Event("error", c.attempt, msg)>>
        waited == Append(tried, Event("sleep", 2 ^ c.attempt, <<>>))
    IN  IF ~rate_limited(msg)
        THEN [c EXCEPT !.status = "raised", !.log = tried, !.error = msg]
        ELSE IF c.attempt = GenerateMaxRetries - 1
        THEN [c EXCEPT !.status = "raised", !.log = waited, !.error = <<"R", "a", "t", "e", " ", "l", "i", "m", "i", "t", " ", "e", "x", "c", "e", "e", "d", "e", "d", " ", "a", "f", "t", "e", "r", " ", "r", "e", "t", "r", "i", "e", "s">>]
        ELSE IF c.attempt + 1 < GenerateMaxRetries
        THEN [c EXCEPT !.attempt = c.attempt + 1, !.log = waited]
        ELSE [c EXCEPT !.status = "raised", !.log = waited, !.error = <<"M", "a", "x", " ", "r", "e", "t", "r", "i", "e", "s", " ", "e", "x", "c", "e", "e", "d", "e", "d">>]

\* the messages of the exceptions a request raises, and the contents of the
\* responses it returns
ErrorMessages == { <<"E", "r", "r", "o", "r", " ", "c", "o", "d", "e", ":", " ", "4", "2", "9">>, <<"R", "a", "t", "e", "_", "L", "i", "m", "i", "t", " ", "r", "e", "a", "c", "h", "e", "d">>, <<"r", "a", "t", "e", "_", "l", "i", "m", "i", "t", "_", "e", "x", "c", "e", "e", "d", "e", "d">>, <<"C", "o", "n", "n", "e", "c", "t", "i", "o", "n", " ", "e", "r", "r", "o", "r">> }
ResponseContents == { <<"#", "#", "#", "#", " ", "8">>, <<"a", "n", "s", "w", "e", "r", " ", "=", " ", "8">> }
Solvers == {"cot", "pal"}

InitCall ==
    /\ call = NoCall
    /\ pc = "input"
    /\ VerifierUnused
    /\ VoteUnused
    /\ IndexUnused
    /\ RetrieverUnused
    /\ PatternUnused
    /\ NormalizerUnused
    /\ PalSolveUnused /\ CotSolveUnused /\ RunUnused

\* self._generate_reasoning(question, few_shots) or
\* self._generate_code(question, few_shots) is entered
BeginCall(s) ==
    /\ call.status = "idle"
    /\ call' = [NoCall EXCEPT !.solver = s, !.status = "running"]
    /\ UNCHANGED <<verifier_vars, index_vars, retriever_vars, extracted, norm>>
    /\ UNCHANGED <<pal_solve, cot_solve, run>>

\* the request of this attempt returns a response: return its content
Respond(content) ==
    /\ call.status = "running"
    /\ call.attempt < GenerateMaxRetries
    /\ call' = [call EXCEPT !.status = "returned",
                            !.result = content,
                            !.log = call.log \o delay_before(call.attempt)
                                        \o <<Event("request", call.attempt, <<>>),
                                             Event("response", call.attempt, content)>>]
    /\ UNCHANGED <<verifier_vars, index_vars, retriever_vars, extracted, norm>>
    /\ UNCHANGED <<pal_solve, cot_solve, run>>

\* the request of this attempt raises
Fail(msg) ==
    /\ call.status = "running"
    /\ call.attempt < GenerateMaxRetries
    /\ call' = after_error(call, msg)
    /\ UNCHANGED <<verifier_vars, index_vars, retriever_vars, extracted, norm>>
    /\ UNCHANGED <<pal_solve, cot_solve, run>>

NextCall ==
    \/ \E s \in Solvers : BeginCall(s)
    \/ \E content \in ResponseContents : Respond(content)
    \/ \E msg \in ErrorMessages : Fail(msg)

SpecCall == InitCall /\ [][NextCall]_vars

----------------------------------------------------------------------------
(* Claims about the provider call *)

CallLog == call.log
EventsOf(kind) == {i \in DOMAIN CallLog : CallLog[i].kind = kind}

\* an error whose message holds 'rate_limit' or '429', in any letter case
IsRateLimit(msg) ==
    \E w \in { <<"r", "a", "t", "e", "_", "l", "i", "m", "i", "t">>, <<"4", "2", "9">> } : contains(lower(msg), w)

\* C23: one call makes at most 3 provider requests; a request is retried only
\* after a rate-limit error ('rate_limit' or '429' in the message), with a
\* wait of 2^attempt seconds after the failure of attempt 0, 1, 2; any other
\* error is propagated to the caller at once with no further request; after
\* the third rate-limit error an exception is raised; the first successful
\* response is returned and no request follows it.
C23_Retry ==
    /\ Cardinality(EventsOf("request")) <= 3
    /\ \A i \in EventsOf("request") :
          CallLog[i].n = Cardinality({j \in EventsOf("request") : j < i})
    /\ \A e \in EventsOf("error") :
          IF IsRateLimit(CallLog[e].msg)
          THEN /\ e < Len(CallLog)
               /\ CallLog[e + 1] = Event("sleep", 2 ^ CallLog[e].n, <<>>)
          ELSE /\ e = Len(CallLog)
               /\ call.status = "raised"
               /\ call.error = CallLog[e].msg
    /\ Cardinality({e \in EventsOf("error") : IsRateLimit(CallLog[e].msg)}) = 3
          => call.status = "raised"
    /\ \A r \in EventsOf("response") :
          /\ r = Len(CallLog)
          /\ call.status = "returned"
          /\ call.result = CallLog[r].msg
    /\ call.status = "returned" => EventsOf("response") # {}
    /\ call.status = "running" =>
          \A e \in EventsOf("error") : IsRateLimit(CallLog[e].msg)

\* two rate-limit errors, waits of 1 and 2 seconds, and the third request
\* answered
C23_Witness ==
    /\ call.status = "returned"
    /\ Cardinality(EventsOf("request")) = 3
    /\ \E i, j \in DOMAIN CallLog :
          /\ CallLog[i] = Event("sleep", 1, <<>>) /\ CallLog[i - 1].kind = "error"
          /\ CallLog[j] = Event("sleep", 2, <<>>) /\ CallLog[j - 1].kind = "error"

----------------------------------------------------------------------------
(* pal_solver.py: PALSolver.solve *)

\* exec(code, namespace) on the programs of the model: whether it raised,
\* and the namespace it left (whether 'answer' is bound, and to what)
Namespace(raised, bound, value) == [raised |-> raised, bound |-> bound, value |-> value]
exec(code) ==
    CASE code = <<"a", "n", "s", "w", "e", "r", " ", "=", " ", "4", "2">> -> Namespace(FALSE, TRUE, PyInt(42))
      [] code = <<"a", "n", "s", "w", "e", "r", " ", "=", " ", "0">> -> Namespace(FALSE, TRUE, PyInt(0))
      [] code = <<"a", "n", "s", "w", "e", "r", " ", "=", " ", "N", "o", "n", "e">> -> Namespace(FALSE, TRUE, PyNone)
      [] code = <<"a", "n", "s", "w", "e", "r", "s", " ", "=", " ", "3">> -> Namespace(FALSE, FALSE, PyNone)
      [] code = <<"x", " ", "=", " ", "1">> -> Namespace(FALSE, FALSE, PyNone)
      [] code = <<"a", "n", "s", "w", "e", "r", " ", "=", " ", "1", "/", "0">> -> Namespace(TRUE, FALSE, PyNone)
      [] OTHER -> Namespace(TRUE, FALSE, PyNone)

Executed(error, value) == [error |-> error, value |-> value]

\* an _execute_code that hands back whatever 'answer' is bound to
execute_code_unchecked(code) ==
    LET namespace == exec(code)
    IN  IF namespace.raised THEN Executed("RuntimeError", PyNone)
        ELSE IF ~namespace.bound THEN Executed("ValueError", PyNone)
        ELSE Executed("none", namespace.value)

\* PALSolver._execute_code(code): the value of 'answer', or the error raised
PALSolver_execute_code(code) ==
    LET namespace == exec(code)
    IN  IF namespace.raised THEN Executed("RuntimeError", PyNone)
        ELSE IF ~namespace.bound THEN Executed("ValueError", PyNone)
        ELSE IF namespace.value = PyNone THEN Executed("ValueError", PyNone)
        ELSE Executed("none", namespace.value)

\* what one pass of the loop body is given: _generate_code raised, or it
\* returned a response without content (on which _extract_code raises), or
\* it returned a text from which _extract_code made this code
Generation(kind, code) == [kind |-> kind, code |-> code]

\* the dictionaries solve returns
PalSuccess(code, result) == [success |-> TRUE, has_code |-> TRUE, code |-> code,
                             result |-> result, has_error |-> FALSE]
PalFailure == [success |-> FALSE, has_code |-> FALSE, code |-> <<>>,
               result |-> PyNone, has_error |-> TRUE]

\* lines 44-68, one pass of the loop: what it returns, or "continue"
Continue == [success |-> FALSE, has_code |-> FALSE, code |-> <<>>,
             result |-> PyNone, has_error |-> FALSE]
attempt_of(gen) ==
    IF gen.kind # "text" THEN Continue
    ELSE IF gen.code = <<>> \/ ~contains(gen.code, <<"a", "n", "s", "w", "e", "r">>) THEN Continue
    ELSE IF PALSolver_execute_code(gen.code).error # "none" THEN Continue
    ELSE PalSuccess(gen.code, PALSolver_execute_code(gen.code).value)

NoPalSolve == [status |-> "idle", max_retries |-> 0, attempts |-> <<>>, out |-> Continue]

MaxRetries == 3

Programs == { <<>>, <<"a", "n", "s", "w", "e", "r", " ", "=", " ", "4", "2">>, <<"a", "n", "s", "w", "e", "r", " ", "=", " ", "0">>, <<"a", "n", "s", "w", "e", "r", " ", "=", " ", "N", "o", "n", "e">>, <<"a", "n", "s", "w", "e", "r", "s", " ", "=", " ", "3">>, <<"x", " ", "=", " ", "1">>, <<"a", "n", "s", "w", "e", "r", " ", "=", " ", "1", "/", "0">> }
Generations ==
    { Generation("raised", <<>>), Generation("no content", <<>>) }
        \cup { Generation("text", code) : code \in Programs }

InitPalSolve ==
    /\ pal_solve = NoPalSolve
    /\ pc = "input"
    /\ VerifierUnused
    /\ VoteUnused
    /\ IndexUnused
    /\ RetrieverUnused
    /\ PatternUnused
    /\ NormalizerUnused
    /\ CallUnused /\ CotSolveUnused /\ RunUnused

\* PALSolver(max_retries=m).solve(question, few_shots) is entered; with no
\* pass to make it returns the failure
BeginSolve(m) ==
    /\ pal_solve.status = "idle"
    /\ pal_solve' = [NoPalSolve EXCEPT !.max_retries = m,
                                       !.status = IF m = 0 THEN "returned" ELSE "running",
                                       !.out = IF m = 0 THEN PalFailure ELSE Continue]
    /\ UNCHANGED <<verifier_vars, index_vars, retriever_vars, extracted, norm>>
    /\ UNCHANGED <<call, cot_solve, run>>

\* one pass of the loop; after the last one that fails, the failure is
\* returned
Attempt(gen) ==
    /\ pal_solve.status = "running"
    /\ Len(pal_solve.attempts) < pal_solve.max_retries
    /\ pal_solve' =
          [pal_solve EXCEPT
              !.attempts = Append(pal_solve.attempts, gen),
              !.status = IF attempt_of(gen) = Continue
                            /\ Len(pal_solve.attempts) + 1 < pal_solve.max_retries
                         THEN "running" ELSE "returned",
              !.out = IF attempt_of(gen) # Continue THEN attempt_of(gen)
                      ELSE IF Len(pal_solve.attempts) + 1 < pal_solve.max_retries
                      THEN Continue ELSE PalFailure]
    /\ UNCHANGED <<verifier_vars, index_vars, retriever_vars, extracted, norm>>
    /\ UNCHANGED <<call, cot_solve, run>>

NextPalSolve ==
    \/ \E m \in 0..MaxRetries : BeginSolve(m)
    \/ \E gen \in Generations : Attempt(gen)

SpecPalSolve == InitPalSolve /\ [][NextPalSolve]_vars

----------------------------------------------------------------------------
(* Claims about PALSolver.solve *)

\* an attempt whose generation raised (or gave no text), whose code is empty
\* or lacks 'answer', whose execution raised, or whose 'answer' binding is
\* missing or None
AttemptFailed(gen) ==
    \/ gen.kind # "text"
    \/ gen.code = <<>>
    \/ ~contains(gen.code, <<"a", "n", "s", "w", "e", "r">>)
    \/ exec(gen.code).raised
    \/ ~exec(gen.code).bound
    \/ exec(gen.code).value = PyNone

PalAttempts == pal_solve.attempts

\* C24: solve makes at most max_retries generate-and-execute attempts and
\* never raises; a failed attempt triggers a fresh generation while attempts
\* remain; solve returns at the first successful attempt, with success=True
\* and a result that is not None, and returns success=False with result None
\* exactly when all attempts failed.
C24_SolveProtocol ==
    /\ pal_solve.status \in {"idle", "running", "returned"}
    /\ Len(PalAttempts) <= pal_solve.max_retries
    /\ \A i \in DOMAIN PalAttempts :
          ~AttemptFailed(PalAttempts[i]) =>
              /\ i = Len(PalAttempts)
              /\ pal_solve.status = "returned"
              /\ pal_solve.out.success
              /\ pal_solve.out.result = exec(PalAttempts[i].code).value
              /\ pal_solve.out.result # PyNone
    /\ pal_solve.status = "running" =>
          /\ Len(PalAttempts) < pal_solve.max_retries
          /\ \A i \in DOMAIN PalAttempts : AttemptFailed(PalAttempts[i])
    /\ pal_solve.status = "returned" =>
          /\ pal_solve.out.success = (\E i \in DOMAIN PalAttempts : ~AttemptFailed(PalAttempts[i]))
          /\ ~pal_solve.out.success =>
                /\ pal_solve.out.result = PyNone
                /\ Len(PalAttempts) = pal_solve.max_retries

\* the first attempt bound 'answer' to None, the second one to 0, and solve
\* returned 0 without a third attempt
C24_Witness ==
    /\ pal_solve.status = "returned"
    /\ pal_solve.max_retries = 3
    /\ pal_solve.attempts = <<Generation("text", <<"a", "n", "s", "w", "e", "r", " ", "=", " ", "N", "o", "n", "e">>), Generation("text", <<"a", "n", "s", "w", "e", "r", " ", "=", " ", "0">>)>>
    /\ pal_solve.out = PalSuccess(<<"a", "n", "s", "w", "e", "r", " ", "=", " ", "0">>, PyInt(0))

----------------------------------------------------------------------------
(* cot_solver.py: CoTSolver._extract_final_answer and CoTSolver.solve *)

\* the characters \s matches
RegexSpace == Whitespace \cup {"\n"}

smallest(S) == CHOOSE x \in S : \A y \in S : x <= y
largest(S) == CHOOSE x \in S : \A y \in S : y <= x

\* the first index from k on that holds a newline, Len(s) + 1 without one
RECURSIVE line_end(_, _)
line_end(s, k) == IF k > Len(s) \/ s[k] = "\n" THEN k ELSE line_end(s, k + 1)

\* the first index from j on that holds no \s character
RECURSIVE space_end(_, _)
space_end(s, j) == IF j <= Len(s) /\ s[j] \in RegexSpace THEN space_end(s, j + 1) ELSE j

\* \s*(.+?)(?:\n|$) tried at j: where the group can start; \s* is greedy and
\* gives characters back while '.' finds no character other than a newline
group_starts(s, j) == {k \in j..space_end(s, j) : k <= Len(s) /\ s[k] # "\n"}

\* the group (.+?) that starts at k: up to the end of its line
group_at(s, k) == SubSeq(s, k, line_end(s, k + 1) - 1)

Match(group) == [matched |-> TRUE, group |-> group]
NoMatch == [matched |-> FALSE, group |-> <<>>]

\* re.search(r'####\s*(.+?)(?:\n|$)', s, re.MULTILINE)
search_terminator(s) ==
    LET at == {i \in 1..(Len(s) - 3) :
                  /\ SubSeq(s, i, i + 3) = <<"#", "#", "#", "#">>
                  /\ group_starts(s, i + 4) # {}}
    IN  IF at = {} THEN NoMatch
        ELSE Match(group_at(s, largest(group_starts(s, smallest(at) + 4))))

\* :?\s*(.+?)(?:\n|$) tried at j: where the group starts, 0 for no match;
\* the colon is given back when nothing but newlines follows it
colon_group_start(s, j) ==
    IF j <= Len(s) /\ s[j] = ":"
    THEN IF group_starts(s, j + 1) # {} THEN largest(group_starts(s, j + 1)) ELSE j
    ELSE IF group_starts(s, j) # {} THEN largest(group_starts(s, j)) ELSE 0

\* re.search(r'(?:final\s+)?answer:?\s*(.+?)(?:\n|$)', s,
\*           re.IGNORECASE | re.MULTILINE): the group is that of the first
\* 'answer' after which it can start ('final' before it moves the start of
\* the match, not the group)
search_answer(s) ==
    LET at == {i \in 1..(Len(s) - 5) :
                  /\ lower(SubSeq(s, i, i + 5)) = <<"a", "n", "s", "w", "e", "r">>
                  /\ colon_group_start(s, i + 6) # 0}
    IN  IF at = {} THEN NoMatch
        ELSE Match(group_at(s, colon_group_start(s, smallest(at) + 6)))

\* match.group(1).strip(), then re.sub(r'[*`\[\]]', '', answer).strip()
clean_group(group) == strip(remove(strip(group), {"*", GraveAccent, "[", "]"}))

\* CoTSolver._extract_final_answer(trace)
CoTSolver_extract_final_answer(trace) ==
    IF search_terminator(trace).matched
    THEN PyStr(clean_group(search_terminator(trace).group))
    ELSE IF search_answer(trace).matched
    THEN PyStr(clean_group(search_answer(trace).group))
    ELSE PyNone

\* lines 60-78: the majority of the extracted answers, as they are
majority(extracted_answers) ==
    IF extracted_answers # <<>>
    THEN [value |-> PyStr(most_common(extracted_answers)[1]),
          confidence |-> Frac(most_common(extracted_answers)[2], Len(extracted_answers))]
    ELSE [value |-> PyNone, confidence |-> Frac(0, 1)]

\* one pass of the loop of solve: _generate_reasoning raised, or returned
\* this trace
Reasoning(kind, trace) == [kind |-> kind, trace |-> trace]

\* if answer: (neither None nor '')
truthy(answer) == answer # PyNone /\ answer.s # <<>>

NoCotSolve == [status |-> "idle", num_samples |-> 0, samples |-> <<>>, traces |-> <<>>,
               extracted_answers |-> <<>>,
               out |-> [value |-> PyNone, confidence |-> Frac(0, 1)]]

\* lines 46-57
after_sample(c, g) ==
    IF g.kind = "raised" THEN [c EXCEPT !.samples = Append(c.samples, g)]
    ELSE IF truthy(CoTSolver_extract_final_answer(g.trace))
    THEN [c EXCEPT !.samples = Append(c.samples, g),
                   !.traces = Append(c.traces, g.trace),
                   !.extracted_answers =
                       Append(c.extracted_answers, CoTSolver_extract_final_answer(g.trace).s)]
    ELSE [c EXCEPT !.samples = Append(c.samples, g),
                   !.traces = Append(c.traces, g.trace)]

\* after the last pass solve returns
returned_when_done(c) ==
    IF Len(c.samples) < c.num_samples THEN c
    ELSE [c EXCEPT !.status = "returned", !.out = majority(c.extracted_answers)]

MaxSamples == 3

ReasoningTraces == { <<"5", "+", "3", "=", "8", "\n", "#", "#", "#", "#", " ", "8">>, <<"#", "#", "#", "#", " ", "Y", "e", "s">>, <<"#", "#", "#", "#", " ", "y", "e", "s", "\n", "D", "o", "n", "e", ".">>, <<"#", "#", "#", "#", " ", "n", "o">>, <<"n", "o", " ", "i", "d", "e", "a">>, <<"T", "h", "e", " ", "a", "n", "s", "w", "e", "r", " ", "i", "s", " ", "5">>, <<"#", "#", "#", "#", " ">>, <<"#", "#", "#", "#", " ", "*", "*", "8", "*", "*">> }
Reasonings == { Reasoning("raised", <<>>) } \cup { Reasoning("trace", t) : t \in ReasoningTraces }

InitCotSolve ==
    /\ cot_solve = NoCotSolve
    /\ pc = "input"
    /\ VerifierUnused
    /\ VoteUnused
    /\ IndexUnused
    /\ RetrieverUnused
    /\ PatternUnused
    /\ NormalizerUnused
    /\ CallUnused /\ PalSolveUnused /\ RunUnused

\* CoTSolver(num_samples=n).solve(question, few_shots) is entered
BeginCot(n) ==
    /\ cot_solve.status = "idle"
    /\ cot_solve' = returned_when_done([NoCotSolve EXCEPT !.status = "running", !.num_samples = n])
    /\ UNCHANGED <<verifier_vars, index_vars, retriever_vars, extracted, norm>>
    /\ UNCHANGED <<call, pal_solve, run>>

\* one pass of the loop, and the vote after the last
Sample(g) ==
    /\ cot_solve.status = "running"
    /\ Len(cot_solve.samples) < cot_solve.num_samples
    /\ cot_solve' = returned_when_done(after_sample(cot_solve, g))
    /\ UNCHANGED <<verifier_vars, index_vars, retriever_vars, extracted, norm>>
    /\ UNCHANGED <<call, pal_solve, run>>

NextCotSolve ==
    \/ \E n \in 0..MaxSamples : BeginCot(n)
    \/ \E g \in Reasonings : Sample(g)

SpecCotSolve == InitCotSolve /\ [][NextCotSolve]_vars

----------------------------------------------------------------------------
(* Claims about CoTSolver.solve *)

\* C25: the (result, confidence) that CoTSolver.solve returns is
\* vote_answers of the list of extracted answers: same majority value, same
\* vote fraction, (None, 0.0) for the empty list, also when entries differ
\* only in letter case or surrounding whitespace.
C25_VoteReduces ==
    cot_solve.status = "returned" =>
        cot_solve.out = vote_answers(cot_solve.extracted_answers)

HasTerminator(trace) == contains(trace, <<"#", "#", "#", "#">>)
CotTraces == {i \in DOMAIN cot_solve.samples : cot_solve.samples[i].kind = "trace"}
\* the dictionary solve returned, as Verifier.verify reads it
CotReturned == CotDict({"result", "confidence"}, cot_solve.out.value, cot_solve.out.confidence)

\* C26: for every generated trace without a '####' terminator,
\* _extract_final_answer returns None and the trace contributes no vote;
\* when no trace yields an answer, solve returns result None with confidence
\* 0.0, which Verifier.verify treats as a failed CoT candidate.
C26_ExtractionFailure ==
    /\ \A i \in CotTraces :
          ~HasTerminator(cot_solve.samples[i].trace) =>
              CoTSolver_extract_final_answer(cot_solve.samples[i].trace) = PyNone
    /\ Len(cot_solve.extracted_answers) <=
          Cardinality({i \in CotTraces : HasTerminator(cot_solve.samples[i].trace)})
    /\ (cot_solve.status = "returned" /\ cot_solve.extracted_answers = <<>>) =>
          /\ cot_solve.out = [value |-> PyNone, confidence |-> Frac(0, 1)]
          /\ \A p \in PalResults : \A b \in BOOLEAN :
                Verifier_verify(b, p, CotReturned, <<>>).method \in {"pal_only", "fallback"}

----------------------------------------------------------------------------
(* the batch loops: main() of the math solver (main.py 68-160) and          *)
(* process_test_file of the multi-hop system (main.py 65-121)               *)

Stats(p, c, a, f) == [pal_success |-> p, cot_success |-> c, both_agree |-> a, both_fail |-> f]

\* an output row: a line of the predictions file, or a record of results
Row(q, answer, placeholder) == [question |-> q, answer |-> answer, placeholder |-> placeholder]

NoRun == [program |-> "none", status |-> "idle", questions |-> <<>>, prefer_pal |-> TRUE,
          stats |-> Stats(0, 0, 0, 0), methods |-> <<>>, answers |-> <<>>,
          output |-> <<>>, error |-> "none"]

\* lines 90-117: the counters after one question
count(stats, pal, cot) ==
    LET pal_ok == dict_get(pal, "success", FALSE)
        cot_ok == truthy(dict_get(cot, "result", PyNone))
        agree == /\ pal_ok /\ cot_ok
                 /\ strip_lower(py_str(pal.result)) = strip_lower(py_str(cot.result))
    IN  Stats(stats.pal_success + (IF pal_ok THEN 1 ELSE 0),
              stats.cot_success + (IF cot_ok THEN 1 ELSE 0),
              stats.both_agree + (IF agree THEN 1 ELSE 0),
              stats.both_fail + (IF ~pal_ok /\ ~cot_ok THEN 1 ELSE 0))

\* lines 122-137: the run after verify returned v and normalize_answer ended
\* as o; an exception leaves the loop and main
after_question(r, pal, cot, v, o) ==
    IF o.raised # "none"
    THEN [r EXCEPT !.status = "loop raised", !.error = o.raised,
                   !.stats = count(r.stats, pal, cot),
                   !.methods = Append(r.methods, v.method)]
    ELSE [r EXCEPT !.stats = count(r.stats, pal, cot),
                   !.methods = Append(r.methods, v.method),
                   !.answers = Append(r.answers, o.out)]

\* write_predictions(test_questions, answers, path): one line per question
write_predictions(questions, as) ==
    [i \in DOMAIN questions |-> Row(questions[i], as[i], FALSE)]

MaxQuestions == 2

TestQuestions == { <<"H", "o", "w", " ", "m", "a", "n", "y", " ", "a", "p", "p", "l", "e", "s", "?">>, <<"W", "h", "a", "t", " ", "i", "s", " ", "x", "?">> }
\* what PALSolver.solve and CoTSolver.solve return
PalSolved == { PalDict({"success", "result"}, FALSE, PyNone),
               PalDict({"success", "result"}, TRUE, PyInt(1000)) }
CotSolved == { CotDict({"result", "confidence"}, PyNone, Frac(0, 1)),
               CotDict({"result", "confidence"}, PyStr(<<"1", ",", "0", "0", "0">>), Frac(2, 3)),
               CotDict({"result", "confidence"}, PyStr(<<"1", "0", "0", "0">>), Frac(1, 1)),
               CotDict({"result", "confidence"}, PyStr(<<"i", "n", "f">>), Frac(1, 1)) }

\* the rows process_test_file reads (their ids), and what answer_question
\* does on one
TestRows == {"r1", "r2"}
Answered == {"answered", "raised"}

InitRun ==
    /\ run = NoRun
    /\ pc = "input"
    /\ VerifierUnused
    /\ VoteUnused
    /\ IndexUnused
    /\ RetrieverUnused
    /\ PatternUnused
    /\ NormalizerUnused
    /\ CallUnused /\ PalSolveUnused /\ CotSolveUnused

\* main() of the math solver up to its loop
BeginMain(qs, prefer) ==
    /\ run.status = "idle"
    /\ run' = [NoRun EXCEPT !.program = "math", !.status = "running",
                            !.questions = qs, !.prefer_pal = prefer]
    /\ UNCHANGED <<verifier_vars, index_vars, retriever_vars, extracted, norm>>
    /\ UNCHANGED <<call, pal_solve, cot_solve>>

\* one pass of the loop of main (lines 77-137)
MainQuestion(pal, cot) ==
    /\ run.program = "math"
    /\ run.status = "running"
    /\ Len(run.methods) < Len(run.questions)
    /\ \E o \in normalize_answer(
                    PyStr(Verifier_verify(run.prefer_pal, pal, cot,
                                          run.questions[Len(run.methods) + 1]).final_answer),
                    run.questions[Len(run.methods) + 1]) :
          run' = after_question(run, pal, cot,
                                Verifier_verify(run.prefer_pal, pal, cot,
                                                run.questions[Len(run.methods) + 1]),
                                o)
    /\ UNCHANGED <<verifier_vars, index_vars, retriever_vars, extracted, norm>>
    /\ UNCHANGED <<call, pal_solve, cot_solve>>

\* lines 139-160: the files are written, then the statistics are printed
\* (percentages of total = len(test_questions))
MainFinish ==
    /\ run.program = "math"
    /\ run.status = "running"
    /\ Len(run.methods) = Len(run.questions)
    /\ run' = [run EXCEPT !.output = write_predictions(run.questions, run.answers),
                          !.status = IF Len(run.questions) = 0 THEN "report raised" ELSE "done",
                          !.error = IF Len(run.questions) = 0 THEN "ZeroDivisionError" ELSE "none"]
    /\ UNCHANGED <<verifier_vars, index_vars, retriever_vars, extracted, norm>>
    /\ UNCHANGED <<call, pal_solve, cot_solve>>

\* process_test_file up to its loop; without rows it returns None
BeginInfer(rows) ==
    /\ run.status = "idle"
    /\ run' = [NoRun EXCEPT !.program = "multihop",
                            !.status = IF rows = <<>> THEN "no rows" ELSE "running",
                            !.questions = rows]
    /\ UNCHANGED <<verifier_vars, index_vars, retriever_vars, extracted, norm>>
    /\ UNCHANGED <<call, pal_solve, cot_solve>>

\* one pass of the loop of process_test_file (lines 67-115): the result of
\* answer_question, or the placeholder when it raised
InferQuestion(outcome) ==
    /\ run.program = "multihop"
    /\ run.status = "running"
    /\ Len(run.answers) < Len(run.questions)
    /\ run' = [run EXCEPT
                  !.answers = Append(run.answers,
                                     Row(run.questions[Len(run.answers) + 1],
                                         IF outcome = "raised" THEN <<>> ELSE <<"B", "o">>,
                                         outcome = "raised")),
                  !.methods = Append(run.methods, outcome)]
    /\ UNCHANGED <<verifier_vars, index_vars, retriever_vars, extracted, norm>>
    /\ UNCHANGED <<call, pal_solve, cot_solve>>

\* lines 117-135: the results are written
InferFinish ==
    /\ run.program = "multihop"
    /\ run.status = "running"
    /\ Len(run.answers) = Len(run.questions)
    /\ run' = [run EXCEPT !.output = run.answers, !.status = "done"]
    /\ UNCHANGED <<verifier_vars, index_vars, retriever_vars, extracted, norm>>
    /\ UNCHANGED <<call, pal_solve, cot_solve>>

NextRun ==
    \/ \E qs \in SeqsUpTo(TestQuestions, MaxQuestions), prefer \in BOOLEAN : BeginMain(qs, prefer)
    \/ \E pal \in PalSolved, cot \in CotSolved : MainQuestion(pal, cot)
    \/ MainFinish
    \/ \E rows \in SeqsUpTo(TestRows, MaxQuestions) : BeginInfer(rows)
    \/ \E outcome \in Answered : InferQuestion(outcome)
    \/ InferFinish

SpecRun == InitRun /\ [][NextRun]_vars

----------------------------------------------------------------------------
(* Claims about the batch loops *)

\* C22: an exception raised while one question is processed is caught and
\* gives a placeholder output row, the loop goes on to the next question,
\* and at the end there is exactly one output row per input question, in
\* input order (math-solver main and multi-hop process_test_file).
C22_BatchContinues ==
    /\ run.status # "loop raised"
    /\ run.program = "multihop" =>
          \A i \in DOMAIN run.answers :
              run.answers[i].placeholder = (run.methods[i] = "raised")
    /\ run.status \in {"done", "report raised"} =>
          /\ Len(run.output) = Len(run.questions)
          /\ \A i \in DOMAIN run.output : run.output[i].question = run.questions[i]

CountOf(method) == Cardinality({i \in DOMAIN run.methods : run.methods[i] = method})

\* C28: after any sequence of questions the 'both_agree' counter is the
\* number of questions on which verify returned 'both_agree', the
\* 'both_fail' counter is the number of questions whose method is
\* 'fallback', both_agree <= min(pal_success, cot_success) and
\* both_fail + max(pal_success, cot_success) <= total.
C28_Statistics ==
    run.program = "math" =>
        /\ run.stats.both_agree = CountOf("both_agree")
        /\ run.stats.both_fail = CountOf("fallback")
        /\ run.stats.both_agree <= run.stats.pal_success
        /\ run.stats.both_agree <= run.stats.cot_success
        /\ run.stats.both_fail + run.stats.pal_success <= Len(run.methods)
        /\ run.stats.both_fail + run.stats.cot_success <= Len(run.methods)

====
